---- MODULE Spec2Model ----
(***************************************************************************)
(* A model of publishers.py: the alarm rule engine (AlarmsPublisher) and   *)
(* the fan-out dispatcher (PublisherManager).                              *)
(*                                                                         *)
(* Every handler is one action.  What a handler does from the current     *)
(* state is an operator of the state and the arguments (PublishResult,     *)
(* AcknowledgeFound, ...); the action assigns its result, and the          *)
(* properties of one call quantify over the arguments.                     *)
(***************************************************************************)
EXTENDS Integers, Sequences, FiniteSets, TLC

(***************************************************************************)
(* Bounds of the model.                                                    *)
(***************************************************************************)
\* time.time() and caller timestamps range over 0..MaxTime
MaxTime == 2
\* the Prometheus counters are followed up to MaxCount
MaxCount == 2

(***************************************************************************)
(* Values of Python that the model needs.                                  *)
(***************************************************************************)
\* timestamp=None: the caller omitted the timestamp
NoTs == -1
\* None in a time field of an alarm record (cleared_at, acknowledged_at)
NoTime == -1
\* a numeric tag value
Num(n) == [kind |-> "num", v |-> n]
\* a tag value that float() rejects (a non-numeric string)
Str(n) == [kind |-> "str", v |-> n]
\* an int too large for float(): float(value) raises OverflowError
Huge == [kind |-> "huge", v |-> 0]
\* None in a value field of an alarm record
NoValue == [kind |-> "none", v |-> 0]
\* None in acknowledged_by
NoUser == "none"

\* the tag values the source feeds
Values == {Num(10), Num(30), Num(31)}
\* the tag names the source feeds
Tags == {"T", "B_T"}
\* the timestamps a caller can pass: omitted, or an instant 0..MaxTime
Timestamps == {NoTs} \cup (0..MaxTime)
\* operators acknowledging alarms
Users == {"op"}

(***************************************************************************)
(* Finite maps (Python dict).                                              *)
(***************************************************************************)
EmptyMap == << >>
Put(f, k, v) == [y \in (DOMAIN f) \cup {k} |-> IF y = k THEN v ELSE f[y]]
Del(f, k) == [y \in (DOMAIN f) \ {k} |-> f[y]]

(***************************************************************************)
(* AlarmsPublisher: configuration.                                         *)
(***************************************************************************)
\* AlarmsPublisher.__init__: one entry of parsed_rules
Rule(name, tag, condition, threshold, priority, debounce, auto_clear, channels) ==
    [name |-> name, tag |-> tag, condition |-> condition, threshold |-> threshold,
     priority |-> priority, debounce_seconds |-> debounce, message |-> "Alarm triggered",
     auto_clear |-> auto_clear, channels |-> channels]

\* two rules on one tag: an auto-clearing one and a latching one
RulesPlain ==
    << Rule("Hi", "T", ">", Num(30), "CRITICAL", 1, TRUE, <<"log", "email", "clear">>),
       Rule("Lo", "T", "<", Num(20), "WARNING", 2, FALSE, <<"slack">>) >>

\* two rules whose names and tags contain the separator of rule_key
RulesUnderscore ==
    << Rule("A", "B_T", ">", Num(25), "WARNING", 1, TRUE, <<"email">>),
       Rule("A_B", "T", ">=", Num(31), "INFO", 2, TRUE, <<"sms", "email">>) >>

RuleConfigs == {RulesPlain, RulesUnderscore}

\* config["history_size"]: the capacity of the alarm_history deque
HistorySize == 1

\* notifications config: the channels whose "enabled" is true and whose
\* settings are complete (TWILIO_AVAILABLE for sms)
NotifEnabled == {"email", "slack", "sms"}

VARIABLES
    \* AlarmsPublisher
    al_enabled,         \* self.enabled
    al_running,         \* self.running
    parsed_rules,       \* self.parsed_rules
    active_alarms,      \* self.active_alarms: rule_key -> alarm record
    alarm_history,      \* self.alarm_history: deque(maxlen=history_size)
    last_notification,  \* self.last_notification: rule_key -> time
    clock,              \* time.time()
    \* history variable: (rule name, tag) -> update time of the pair's last
    \* new-alarm notification
    g_notified,
    \* PublisherManager and the sinks it holds beside the AlarmsPublisher
    pub_enabled,        \* publisher.enabled, per sink
    pub_running,        \* publisher.running, per sink
    tag_cache,          \* RESTAPIPublisher.tag_cache: tag -> value, timestamp
    rest_statuses,      \* RESTAPIPublisher._publisher_statuses (unset: << >>)
    prom_messages,      \* PrometheusPublisher.publisher_messages_sent, per label
    prom_errors,        \* PrometheusPublisher.publisher_errors, per label
    prom_gauges,        \* PrometheusPublisher gauges set by the manager
    \* history variables of the most recent publish_to_all call
    g_calls,            \* the sinks whose publish was invoked, in order
    g_raised,           \* the sinks whose publish raised
    g_outcome,          \* "none" before the first call, then "returned" or "raised"
    \* the environment of the AlarmsPublisher
    chan_down,          \* the channels whose transport (SMTP, webhook, Twilio) fails
    \* ModbusTCPPublisher
    mb_enabled,         \* self.enabled
    mb_running,         \* self.running
    register_mapping,   \* config["register_mapping"], in the order of its items
    tag_register_map,   \* tag name -> [start_register, num_registers, type]
    next_register,      \* the next free register
    holding_registers,  \* the non-zero holding registers of self.context: address -> word
    mb_allocated,       \* the last allocate_registers call: its arguments and result
    \* the register codec on its own
    cd_value,           \* the value handed to value_to_registers
    cd_out,             \* what value_to_registers returned (NoOutput before the call)
    \* SQLitePersistencePublisher
    sq_enabled,         \* self.enabled
    sq_connected,       \* self.connection is not None
    write_buffer,       \* self.write_buffer
    sq_rows,            \* the rows of table tag_history, in the order of insertion
    \* GraphQLPublisher
    gq_enabled,         \* self.enabled
    gq_started,         \* history variable: start() launched the server, stop() not called since
    tags_data,          \* self.tags_data: tag -> value, type, timestamp
    \* PublisherManager over sinks that connect to a broker, a server or a database
    lc_missing,         \* the sinks whose client library is not installed
    lc_enabled,         \* publisher.enabled, per sink
    lc_running,         \* publisher.running, per sink
    \* history variables of the sink life cycle
    lc_phase,           \* per sink: "new", or how its last start() or toggle ended
    lc_failed,          \* the sinks with a failed start() and no toggle since
    lc_last,            \* the last toggle_publisher call: its argument and return value
    lc_statuses,        \* _publisher_statuses of the REST sink (/api/publishers)
    lc_publishers,      \* PublisherManager.publishers: the class names, in list order
    \* history variable: the publish_to_all calls made on the manager of a
    \* caching and a buffering sink, in call order
    od_calls,
    \* two threads inside ModbusTCPPublisher.allocate_registers
    ar_pc,              \* per thread: the statement it is at
    ar_type,            \* per thread: the argument tag_type
    ar_start,           \* per thread: the local start_register
    ar_loaded,          \* per thread: the value of self.next_register that += read
    \* two threads inside AlarmsPublisher.publish for one rule and its tag
    ra_pc,              \* per thread: the statement it is at
    ra_met,             \* per thread: triggered, the result of _evaluate_condition
    ra_active,          \* rule_key in self.active_alarms
    ra_last,            \* self.last_notification[rule_key] (NoTime: no such key)
    ra_created,         \* history variable: the alarm records _trigger_alarm stored
    ra_history,         \* the statuses of the records appended to self.alarm_history
    ra_sent,            \* history variable: the _send_notifications calls, by status
    ra_raised,          \* history variable: the threads whose publish raised KeyError
    \* two threads inside SQLitePersistencePublisher.start and cleanup_old_data
    db_lock,            \* self.db_lock: 0 when free, else the thread that holds it
    audit_buffer,       \* len(self.audit_buffer)
    audit_rows,         \* the number of rows of table audit_log
    cl_op,              \* per thread: the method it is in ("none": in no method)
    cl_pc,              \* per thread: the statement it is at
    \* the callers of AlarmsPublisher.publish once a rule's condition holds for good
    rt_rule,            \* the index of that rule in parsed_rules (0: no such rule yet)
    rt_time,            \* the timestamp of the latest update (-1: none yet)
    \* SQLitePersistencePublisher, configuration
    enable_audit_log,   \* self.enable_audit_log
    \* two threads inside SQLitePersistencePublisher.publish
    fl_pc,              \* per thread: the statement it is at
    fl_accepted,        \* history variable: the records appended to write_buffer
    \* OPCUAClientPublisher and its reconnect threads
    oc_running,         \* self.running
    oc_clients,         \* self.clients, in insertion order
    oc_threads          \* per thread running _reconnect_loop: statement and items left

alarmVars == <<al_enabled, al_running, parsed_rules, active_alarms, alarm_history,
               last_notification, g_notified>>

mgrVars == <<pub_enabled, pub_running, tag_cache, rest_statuses, prom_messages,
             prom_errors, prom_gauges, g_calls, g_raised, g_outcome>>

\* the variables that the alarm engine and the dispatcher leave alone
faultVars == <<chan_down>>
mbVars == <<mb_enabled, mb_running, register_mapping, tag_register_map, next_register,
            holding_registers, mb_allocated>>
cdVars == <<cd_value, cd_out>>
sqVars == <<sq_enabled, sq_connected, write_buffer, sq_rows>>
gqVars == <<gq_enabled, gq_started, tags_data>>
lifeVars == <<lc_missing, lc_enabled, lc_running, lc_phase, lc_failed, lc_last,
              lc_statuses, lc_publishers>>
\* the variables of the parts that stand beside the five above
ordVars == <<od_calls>>
allocVars == <<ar_pc, ar_type, ar_start, ar_loaded>>
raceVars == <<ra_pc, ra_met, ra_active, ra_last, ra_created, ra_history, ra_sent,
              ra_raised>>
lockVars == <<db_lock, audit_buffer, audit_rows, cl_op, cl_pc>>
retrigVars == <<rt_rule, rt_time>>
auditVars == <<enable_audit_log>>
flushVars == <<fl_pc, fl_accepted>>
reconnVars == <<oc_running, oc_clients, oc_threads>>
lateVars == <<retrigVars, auditVars, flushVars, reconnVars>>
extraVars == <<lifeVars, ordVars, allocVars, raceVars, lockVars, lateVars>>
sideVars == <<faultVars, mbVars, cdVars, sqVars, gqVars, extraVars>>
\* extraVars without the audit buffer and the audit_log table
notAuditVars == <<lifeVars, ordVars, allocVars, raceVars, db_lock, cl_op, cl_pc, lateVars>>

vars == <<alarmVars, mgrVars, clock, sideVars>>

(***************************************************************************)
(* AlarmsPublisher: helpers.                                               *)
(***************************************************************************)
\* rule_key = f"{rule['name']}_{tag_name}"
RuleKey(rule_name, tag_name) == rule_name \o "_" \o tag_name

\* "timestamp or time.time()": None and 0 are both falsy
Now(timestamp) == IF timestamp = NoTs \/ timestamp = 0 THEN clock ELSE timestamp

\* the time of an update as the interface defines it: the caller's timestamp,
\* the call time when it is omitted
UpdTime(timestamp) == IF timestamp = NoTs THEN clock ELSE timestamp

\* float(x) succeeds
IsFloat(x) == x.kind = "num"

\* _evaluate_condition whose except branch returns True
EvaluateCondition_FailureMeansMet(value, condition, threshold) ==
    IF condition \in {">", ">=", "<", "<="}
    THEN IF IsFloat(value) /\ IsFloat(threshold)
         THEN CASE condition = ">"  -> value.v > threshold.v
                [] condition = ">=" -> value.v >= threshold.v
                [] condition = "<"  -> value.v < threshold.v
                [] condition = "<=" -> value.v <= threshold.v
         ELSE TRUE
    ELSE IF condition = "==" THEN value = threshold
    ELSE IF condition = "!=" THEN value # threshold
    ELSE FALSE

\* AlarmsPublisher._evaluate_condition
EvaluateCondition(value, condition, threshold) ==
    IF condition \in {">", ">=", "<", "<="}
    THEN IF IsFloat(value) /\ IsFloat(threshold)
         THEN CASE condition = ">"  -> value.v > threshold.v
                [] condition = ">=" -> value.v >= threshold.v
                [] condition = "<"  -> value.v < threshold.v
                [] condition = "<=" -> value.v <= threshold.v
         ELSE FALSE  \* ValueError / TypeError caught
    ELSE IF condition = "==" THEN value = threshold
    ELSE IF condition = "!=" THEN value # threshold
    ELSE FALSE

\* AlarmsPublisher._evaluate_condition: float() raises an exception that is
\* neither ValueError nor TypeError
ConditionRaises(value, condition, threshold) ==
    /\ condition \in {">", ">=", "<", "<="}
    /\ value = Huge \/ (IsFloat(value) /\ threshold = Huge)

\* deque(maxlen=history_size).append
DequeAppend(h, x) ==
    IF HistorySize = 0 THEN << >>
    ELSE IF Len(h) >= HistorySize THEN Append(Tail(h), x)
    ELSE Append(h, x)

\* one notification handed to a channel's transport; delivered: the transport
\* did not raise (a raise is caught and logged inside _send_email, _send_slack
\* and _send_sms)
Notification(channel, alarm) ==
    [channel |-> channel, rule_name |-> alarm.rule_name, tag |-> alarm.tag,
     status |-> alarm.status, delivered |-> channel \notin chan_down]

RECURSIVE SendNotifications_StopsAtFailure(_, _)

RECURSIVE SendNotifications(_, _)

\* _send_notifications when a channel's failure ends the loop
SendNotifications_StopsAtFailure(alarm, channels) ==
    IF channels = << >> THEN << >>
    ELSE LET channel == Head(channels)
         IN IF channel \in {"email", "slack", "sms"} /\ channel \in NotifEnabled
            THEN IF channel \in chan_down
                 THEN <<Notification(channel, alarm)>>
                 ELSE <<Notification(channel, alarm)>>
                      \o SendNotifications_StopsAtFailure(alarm, Tail(channels))
            ELSE SendNotifications_StopsAtFailure(alarm, Tail(channels))

\* AlarmsPublisher._send_notifications: the notifications dispatched, in order
SendNotifications(alarm, channels) ==
    IF channels = << >> THEN << >>
    ELSE LET channel == Head(channels)
             rest == SendNotifications(alarm, Tail(channels))
         IN IF channel \in {"email", "slack", "sms"} /\ channel \in NotifEnabled
            THEN <<Notification(channel, alarm)>> \o rest
            ELSE rest  \* "log": already logged; anything else: no branch

\* the part of the publisher's state that a rule evaluation reads and writes
AlarmState(active, history, lastn, notified) ==
    [active |-> active, history |-> history, lastn |-> lastn, notified |-> notified]

CurrentAlarmState ==
    AlarmState(active_alarms, alarm_history, last_notification, g_notified)

(***************************************************************************)
(* AlarmsPublisher: the operations on the alarm state.  Each returns       *)
(* [st |-> the new AlarmState, sent |-> the notifications dispatched].     *)
(***************************************************************************)
\* AlarmsPublisher._trigger_alarm
TriggerAlarm(st, rule, tag_name, value, timestamp) ==
    LET rule_key == RuleKey(rule.name, tag_name)
        now == Now(timestamp)
    IN IF rule_key \in DOMAIN st.lastn
          /\ now - st.lastn[rule_key] < rule.debounce_seconds
       THEN [st |-> st, sent |-> << >>]  \* debounced
       ELSE LET alarm == [rule_name |-> rule.name,
                          tag |-> tag_name,
                          priority |-> rule.priority,
                          message |-> rule.message,
                          condition |-> <<rule.condition, rule.threshold>>,
                          triggered_value |-> value,
                          last_value |-> value,
                          triggered_at |-> now,
                          last_update |-> now,
                          cleared_at |-> NoTime,
                          cleared_value |-> NoValue,
                          status |-> "ACTIVE",
                          acknowledged |-> FALSE,
                          acknowledged_by |-> NoUser,
                          acknowledged_at |-> NoTime]
                sent == SendNotifications(alarm, rule.channels)
            IN [st |-> AlarmState(Put(st.active, rule_key, alarm),
                                  DequeAppend(st.history, alarm),
                                  Put(st.lastn, rule_key, now),
                                  Put(st.notified, <<rule.name, tag_name>>,
                                      UpdTime(timestamp))),
                sent |-> sent]

\* _clear_alarm without "del self.active_alarms[rule_key]"
ClearAlarm_KeepsRecord(st, rule, tag_name, value, timestamp) ==
    LET rule_key == RuleKey(rule.name, tag_name)
        now == Now(timestamp)
        alarm == [st.active[rule_key] EXCEPT !.status = "CLEARED",
                                             !.cleared_at = now,
                                             !.cleared_value = value]
    IN [st |-> AlarmState(Put(st.active, rule_key, alarm),
                          DequeAppend(st.history, alarm),
                          st.lastn, st.notified),
        sent |-> << >>]

\* AlarmsPublisher._clear_alarm
ClearAlarm(st, rule, tag_name, value, timestamp) ==
    LET rule_key == RuleKey(rule.name, tag_name)
        now == Now(timestamp)
        alarm == [st.active[rule_key] EXCEPT !.status = "CLEARED",
                                             !.cleared_at = now,
                                             !.cleared_value = value]
        clear_alarm == [alarm EXCEPT !.message = "CLEARED: " \o rule.message]
    IN [st |-> AlarmState(Del(st.active, rule_key),
                          DequeAppend(st.history, alarm),
                          st.lastn, st.notified),
        sent |-> IF \E i \in DOMAIN rule.channels : rule.channels[i] = "clear"
                 THEN SendNotifications(clear_alarm, rule.channels)
                 ELSE << >>]

\* the update of an active alarm that also re-arms the debounce stamp
UpdateAlarm_Restamps(st, rule, tag_name, value, timestamp) ==
    LET rule_key == RuleKey(rule.name, tag_name)
    IN [st |-> [st EXCEPT !.active[rule_key].last_value = value,
                          !.active[rule_key].last_update = Now(timestamp),
                          !.lastn = Put(st.lastn, rule_key, Now(timestamp))],
        sent |-> << >>]

\* AlarmsPublisher.publish, "Alarm already active, just update value"
UpdateAlarm(st, rule, tag_name, value, timestamp) ==
    LET rule_key == RuleKey(rule.name, tag_name)
    IN [st |-> [st EXCEPT !.active[rule_key].last_value = value,
                          !.active[rule_key].last_update = Now(timestamp)],
        sent |-> << >>]

\* the loop body that clears without testing rule["auto_clear"]
EvaluateRule_IgnoresAutoClear(st, rule, tag_name, value, timestamp) ==
    LET triggered == EvaluateCondition(value, rule.condition, rule.threshold)
        rule_key == RuleKey(rule.name, tag_name)
    IN IF triggered
       THEN IF rule_key \notin DOMAIN st.active
            THEN TriggerAlarm(st, rule, tag_name, value, timestamp)
            ELSE UpdateAlarm(st, rule, tag_name, value, timestamp)
       ELSE IF rule_key \in DOMAIN st.active
            THEN ClearAlarm(st, rule, tag_name, value, timestamp)
            ELSE [st |-> st, sent |-> << >>]

\* AlarmsPublisher.publish: the body of the loop for one rule that watches the tag
EvaluateRule(st, rule, tag_name, value, timestamp) ==
    LET triggered == EvaluateCondition(value, rule.condition, rule.threshold)
        rule_key == RuleKey(rule.name, tag_name)
    IN IF triggered
       THEN IF rule_key \notin DOMAIN st.active
            THEN TriggerAlarm(st, rule, tag_name, value, timestamp)
            ELSE UpdateAlarm(st, rule, tag_name, value, timestamp)
       ELSE IF rule_key \in DOMAIN st.active /\ rule.auto_clear
            THEN ClearAlarm(st, rule, tag_name, value, timestamp)
            ELSE [st |-> st, sent |-> << >>]

\* AlarmsPublisher.publish: the loop over parsed_rules from rule i on.
\* Returns [st |-> final AlarmState, steps |-> one record per evaluated rule,
\* raised |-> whether an exception left the loop].
RECURSIVE PublishRules(_, _, _, _, _, _)
PublishRules(i, st, steps, tag_name, value, timestamp) ==
    IF i > Len(parsed_rules) THEN [st |-> st, steps |-> steps, raised |-> FALSE]
    ELSE LET rule == parsed_rules[i]
         IN IF rule.tag # tag_name
            THEN PublishRules(i + 1, st, steps, tag_name, value, timestamp)
            ELSE IF ConditionRaises(value, rule.condition, rule.threshold)
            THEN [st |-> st, steps |-> steps, raised |-> TRUE]
            ELSE LET r == EvaluateRule(st, rule, tag_name, value, timestamp)
                     step == [rule |-> i, pre |-> st, post |-> r.st, sent |-> r.sent]
                 IN PublishRules(i + 1, r.st, Append(steps, step),
                                 tag_name, value, timestamp)

(***************************************************************************)
(* AlarmsPublisher: actions.                                               *)
(***************************************************************************)
\* AlarmsPublisher.__init__ with config["enabled"] in enabled and the rules of config
InitAlarmsEnabled(enabled, configs) ==
    /\ al_enabled \in enabled
    /\ al_running = FALSE
    /\ parsed_rules \in configs
    /\ active_alarms = EmptyMap
    /\ alarm_history = << >>
    /\ last_notification = EmptyMap
    /\ g_notified = EmptyMap

\* AlarmsPublisher.__init__ with the rules of config
InitAlarms(configs) ==
    /\ al_enabled = TRUE
    /\ al_running = FALSE
    /\ parsed_rules \in configs
    /\ active_alarms = EmptyMap
    /\ alarm_history = << >>
    /\ last_notification = EmptyMap
    /\ g_notified = EmptyMap

\* AlarmsPublisher.start
AlarmStart ==
    /\ al_running' = IF al_enabled THEN TRUE ELSE al_running
    /\ UNCHANGED <<al_enabled, parsed_rules, active_alarms, alarm_history,
                   last_notification, clock, g_notified, mgrVars, sideVars>>

\* AlarmsPublisher.stop
AlarmStop ==
    /\ al_running' = FALSE
    /\ UNCHANGED <<al_enabled, parsed_rules, active_alarms, alarm_history,
                   last_notification, clock, g_notified, mgrVars, sideVars>>

\* AlarmsPublisher.publish, as a function of the current state:
\* [st |-> the AlarmState it leaves, steps |-> its rule evaluations]
PublishResult(tag_name, value, timestamp) ==
    IF ~al_enabled \/ ~al_running
    THEN [st |-> CurrentAlarmState, steps |-> << >>, raised |-> FALSE]
    ELSE PublishRules(1, CurrentAlarmState, << >>, tag_name, value, timestamp)

\* AlarmsPublisher.publish
AlarmPublish(tag_name, value, timestamp) ==
    LET r == PublishResult(tag_name, value, timestamp)
    IN /\ active_alarms' = r.st.active
       /\ alarm_history' = r.st.history
       /\ last_notification' = r.st.lastn
       /\ g_notified' = r.st.notified
       /\ UNCHANGED <<al_enabled, al_running, parsed_rules, clock, mgrVars, sideVars>>

\* AlarmsPublisher.acknowledge_alarm: the value it returns
AcknowledgeFound(rule_name, tag_name) ==
    RuleKey(rule_name, tag_name) \in DOMAIN active_alarms

\* AlarmsPublisher.acknowledge_alarm: the active set it leaves
AcknowledgeResult(rule_name, tag_name, user) ==
    LET rule_key == RuleKey(rule_name, tag_name)
    IN IF AcknowledgeFound(rule_name, tag_name)
       THEN [active_alarms EXCEPT ![rule_key].acknowledged = TRUE,
                                  ![rule_key].acknowledged_by = user,
                                  ![rule_key].acknowledged_at = clock]
       ELSE active_alarms

\* AlarmsPublisher.acknowledge_alarm
AcknowledgeAlarm(rule_name, tag_name, user) ==
    /\ active_alarms' = AcknowledgeResult(rule_name, tag_name, user)
    /\ UNCHANGED <<al_enabled, al_running, parsed_rules, alarm_history,
                   last_notification, clock, g_notified, mgrVars, sideVars>>

\* the wall clock advances
Tick ==
    /\ clock < MaxTime
    /\ clock' = clock + 1
    /\ UNCHANGED <<alarmVars, mgrVars, sideVars>>

\* the (rule name, tag name) arguments an operator passes to acknowledge_alarm
AckPairs == {<<"Hi", "T">>, <<"Lo", "T">>, <<"A", "B_T">>, <<"A_B", "T">>}

(***************************************************************************)
(* AlarmsPublisher: vocabulary of the properties.                          *)
(***************************************************************************)
\* the records of the pair (rule_name, tag_name) in an active set
PairRecords(active, rule_name, tag_name) ==
    {k \in DOMAIN active : active[k].rule_name = rule_name /\ active[k].tag = tag_name}

\* the pair (rule_name, tag_name) is Active
PairActive(active, rule_name, tag_name) ==
    PairRecords(active, rule_name, tag_name) # {}

\* P holds of every rule evaluation of every publish call that can be made in
\* the current state
EveryStep(P(_, _, _, _)) ==
    \A tag_name \in Tags, value \in Values, timestamp \in Timestamps :
        LET steps == PublishResult(tag_name, value, timestamp).steps
        IN \A i \in DOMAIN steps : P(tag_name, value, timestamp, steps[i])

\* P holds of some rule evaluation of some publish call that can be made in
\* the current state
SomeStep(P(_, _, _, _)) ==
    \E tag_name \in Tags, value \in Values, timestamp \in Timestamps :
        LET steps == PublishResult(tag_name, value, timestamp).steps
        IN \E i \in DOMAIN steps : P(tag_name, value, timestamp, steps[i])

\* P holds of every rule evaluation of the publish call that this step is
EveryStepTaken(P(_, _, _, _)) ==
    \A tag_name \in Tags, value \in Values, timestamp \in Timestamps :
        AlarmPublish(tag_name, value, timestamp) =>
            LET steps == PublishResult(tag_name, value, timestamp).steps
            IN \A i \in DOMAIN steps : P(tag_name, value, timestamp, steps[i])

\* the rule a step evaluated, and whether its condition held
StepRule(s) == parsed_rules[s.rule]
StepCond(value, s) == EvaluateCondition(value, StepRule(s).condition, StepRule(s).threshold)

\* the step moved the rule's pair from Inactive to Active / from Active to Inactive
StepRaised(tag_name, s) ==
    /\ ~PairActive(s.pre.active, StepRule(s).name, tag_name)
    /\ PairActive(s.post.active, StepRule(s).name, tag_name)
StepCleared(tag_name, s) ==
    /\ PairActive(s.pre.active, StepRule(s).name, tag_name)
    /\ ~PairActive(s.post.active, StepRule(s).name, tag_name)

\* the step left the active set, the history and the debounce stamps alone and
\* sent nothing
StepChangedNothing(s) ==
    /\ s.post.active = s.pre.active
    /\ s.post.history = s.pre.history
    /\ s.post.lastn = s.pre.lastn
    /\ s.sent = << >>

\* h2 is h with exactly the record x appended (the deque drops its oldest
\* record when it is full)
AppendedOne(h, h2, x) ==
    /\ h2 # << >>
    /\ h2[Len(h2)] = x
    /\ \/ Len(h) < HistorySize /\ Len(h2) = Len(h) + 1
          /\ \A j \in 1..Len(h) : h2[j] = h[j]
       \/ Len(h) = HistorySize /\ Len(h2) = Len(h)
          /\ \A j \in 1..(Len(h) - 1) : h2[j] = h[j + 1]

\* the number of notifications in sent that went to channel c
SentOn(sent, c) == Cardinality({j \in DOMAIN sent : sent[j].channel = c})

\* the number of times channel c is listed in a rule's channels
ListedTimes(channels, c) == Cardinality({j \in DOMAIN channels : channels[j] = c})

(***************************************************************************)
(* C2: in every reachable state the active set holds at most one record    *)
(* for each (rule name, tag name) pair, and every record in it has status  *)
(* ACTIVE.                                                                 *)
(***************************************************************************)
C2_OneActiveRecordPerPair ==
    /\ \A k \in DOMAIN active_alarms : active_alarms[k].status = "ACTIVE"
    /\ \A k1, k2 \in DOMAIN active_alarms :
          (/\ active_alarms[k1].rule_name = active_alarms[k2].rule_name
           /\ active_alarms[k1].tag = active_alarms[k2].tag) => k1 = k2

\* two pairs are Active at once, after an alarm was cleared and raised again
C2_Witness ==
    /\ Cardinality(DOMAIN active_alarms) = 2
    /\ \E k \in DOMAIN active_alarms :
          active_alarms[k].triggered_at > 1 /\ active_alarms[k].acknowledged

(***************************************************************************)
(* C3 (as claimed): a rule evaluation moves the pair from Inactive to      *)
(* Active if and only if the pair is Inactive, the condition is true, and  *)
(* either no notification was ever sent for the pair or the update time    *)
(* minus the pair's last notification time is at least debounce_seconds.   *)
(***************************************************************************)
C3Step(tag_name, value, timestamp, s) ==
    LET pair == <<StepRule(s).name, tag_name>>
    IN StepRaised(tag_name, s) <=>
          /\ ~PairActive(s.pre.active, StepRule(s).name, tag_name)
          /\ StepCond(value, s)
          /\ \/ pair \notin DOMAIN s.pre.notified
             \/ UpdTime(timestamp) - s.pre.notified[pair] >= StepRule(s).debounce_seconds

C3_RaisedIffConditionAndDebounce == [][EveryStepTaken(C3Step)]_vars

(***************************************************************************)
(* C4 (as claimed): each Inactive-to-Active transition creates exactly one *)
(* ACTIVE record with triggered_value = last_value = the update's value    *)
(* and triggered_at = last_update = the update's time, appends exactly one *)
(* record to the history, dispatches one notification on each configured   *)
(* channel and sets the last-notification time to the update's time.       *)
(***************************************************************************)
C4Step(tag_name, value, timestamp, s) ==
    LET rule == StepRule(s)
        new == PairRecords(s.post.active, rule.name, tag_name)
    IN StepRaised(tag_name, s) =>
          /\ Cardinality(new) = 1
          /\ DOMAIN s.post.active = DOMAIN s.pre.active \cup new
          /\ \A k \in DOMAIN s.pre.active : s.post.active[k] = s.pre.active[k]
          /\ \A k \in new :
                /\ s.post.active[k].status = "ACTIVE"
                /\ s.post.active[k].triggered_value = value
                /\ s.post.active[k].last_value = value
                /\ s.post.active[k].triggered_at = UpdTime(timestamp)
                /\ s.post.active[k].last_update = UpdTime(timestamp)
                /\ AppendedOne(s.pre.history, s.post.history, s.post.active[k])
                /\ k \in DOMAIN s.post.lastn
                /\ s.post.lastn[k] = UpdTime(timestamp)
          /\ \A c \in NotifEnabled : SentOn(s.sent, c) = ListedTimes(rule.channels, c)
          /\ \A j \in DOMAIN s.sent : s.sent[j].status = "ACTIVE"

C4_RaiseCreatesOneRecord == [][EveryStepTaken(C4Step)]_vars

(***************************************************************************)
(* C5 (as claimed): when the condition is true for an Inactive pair but    *)
(* the update falls inside the debounce window, the evaluation changes     *)
(* nothing: active set, history and last-notification time are unchanged   *)
(* and no notification is sent.                                            *)
(***************************************************************************)
C5Step(tag_name, value, timestamp, s) ==
    LET pair == <<StepRule(s).name, tag_name>>
    IN (/\ ~PairActive(s.pre.active, StepRule(s).name, tag_name)
        /\ StepCond(value, s)
        /\ pair \in DOMAIN s.pre.notified
        /\ UpdTime(timestamp) - s.pre.notified[pair] < StepRule(s).debounce_seconds)
       => StepChangedNothing(s)

C5_DebouncedChangesNothing == [][EveryStepTaken(C5Step)]_vars

(***************************************************************************)
(* C6: while a pair is Active, an update with condition true only sets     *)
(* last_value and last_update on the existing record: no notification, no  *)
(* history record, and triggered_value, triggered_at and the               *)
(* last-notification time are unchanged, whatever the update's time.       *)
(***************************************************************************)
C6Step(tag_name, value, timestamp, s) ==
    LET rule == StepRule(s)
    IN (PairActive(s.pre.active, rule.name, tag_name) /\ StepCond(value, s)) =>
          /\ s.sent = << >>
          /\ s.post.history = s.pre.history
          /\ s.post.lastn = s.pre.lastn
          /\ DOMAIN s.post.active = DOMAIN s.pre.active
          /\ \A k \in DOMAIN s.pre.active :
                LET a == s.pre.active[k]
                    b == s.post.active[k]
                IN IF a.rule_name = rule.name /\ a.tag = tag_name
                   THEN /\ b = [a EXCEPT !.last_value = b.last_value,
                                         !.last_update = b.last_update]
                        /\ b.last_value = value
                   ELSE b = a

C7Step(tag_name, value, timestamp, s) ==
    LET rule == StepRule(s)
        old == PairRecords(s.pre.active, rule.name, tag_name)
    IN (/\ PairActive(s.pre.active, rule.name, tag_name)
        /\ ~StepCond(value, s)
        /\ rule.auto_clear)
       => /\ DOMAIN s.post.active = DOMAIN s.pre.active \ old
          /\ \A k \in DOMAIN s.post.active : s.post.active[k] = s.pre.active[k]
          /\ \A k \in old :
                AppendedOne(s.pre.history, s.post.history,
                            [s.pre.active[k] EXCEPT !.status = "CLEARED",
                                                    !.cleared_at = UpdTime(timestamp),
                                                    !.cleared_value = value])
          /\ s.post.lastn = s.pre.lastn
          /\ (s.sent # << >> => ListedTimes(rule.channels, "clear") > 0)
          /\ \A j \in DOMAIN s.sent : s.sent[j].status = "CLEARED"

C7_AutoClear == [][EveryStepTaken(C7Step)]_vars

(***************************************************************************)
(* C8: for an Active pair whose rule has auto_clear = false, an update     *)
(* with condition false causes no transition and no mutation: the record   *)
(* stays in the active set unchanged and the history is unchanged.         *)
(***************************************************************************)
C8Premise(tag_name, value, timestamp, s) ==
    /\ PairActive(s.pre.active, StepRule(s).name, tag_name)
    /\ ~StepCond(value, s)
    /\ ~StepRule(s).auto_clear

C8Step(tag_name, value, timestamp, s) ==
    C8Premise(tag_name, value, timestamp, s) =>
        /\ StepChangedNothing(s)
        /\ \A k \in PairRecords(s.post.active, StepRule(s).name, tag_name) :
              s.post.active[k].status = "ACTIVE"

C9Step(tag_name, value, timestamp, s) ==
    LET pair == <<StepRule(s).name, tag_name>>
    IN (StepRaised(tag_name, s) /\ pair \in DOMAIN s.pre.notified) =>
          UpdTime(timestamp) - s.pre.notified[pair] >= StepRule(s).debounce_seconds

C9_NotificationsDebounceApart == [][EveryStepTaken(C9Step)]_vars

(***************************************************************************)
(* C10 (as claimed): acknowledge_alarm(rule, tag, user) returns True and   *)
(* sets acknowledged and acknowledged_by on the record if and only if the  *)
(* pair is in the active set; otherwise it returns False and changes       *)
(* nothing.  Membership of the active set and every record's status are    *)
(* unchanged in both cases.                                                *)
(***************************************************************************)
C10Call(rule_name, tag_name, user) ==
    LET found == AcknowledgeFound(rule_name, tag_name)
        after == AcknowledgeResult(rule_name, tag_name, user)
        mine == PairRecords(active_alarms, rule_name, tag_name)
    IN /\ found <=> PairActive(active_alarms, rule_name, tag_name)
       /\ DOMAIN after = DOMAIN active_alarms
       /\ \A k \in DOMAIN after :
             IF k \in mine
             THEN after[k] = [active_alarms[k] EXCEPT
                                 !.acknowledged = TRUE,
                                 !.acknowledged_by = user,
                                 !.acknowledged_at = after[k].acknowledged_at]
             ELSE after[k] = active_alarms[k]

C10_AcknowledgeIffActive ==
    [][\A pair \in AckPairs, user \in Users :
          AcknowledgeAlarm(pair[1], pair[2], user) => C10Call(pair[1], pair[2], user)]_vars

(***************************************************************************)
(* AlarmsPublisher under faults: values float() rejects, and notification  *)
(* transports that fail.                                                   *)
(***************************************************************************)
\* the values published: one that triggers and clears rules, a string that is
\* not a number, and None
FaultValues == {Num(31), Num(10), Str(0), NoValue}
FaultTimestamps == {NoTs, 2}

\* the notification channels that have a transport
Transports == {"email", "slack", "sms"}

\* float(value) raises ValueError or TypeError
NotEvaluable(value) == value.kind \in {"str", "none"}

\* P holds of every publish call of a value float() rejects that can be made
\* in the current state
EveryFaultCall(P(_, _)) ==
    \A tag_name \in Tags, value \in FaultValues, timestamp \in FaultTimestamps :
        NotEvaluable(value) => P(tag_name, PublishResult(tag_name, value, timestamp))

\* P holds of every rule evaluation of every publish call that can be made in
\* the current state, whatever transports are down
EveryFaultStep(P(_, _, _, _)) ==
    \A tag_name \in Tags, value \in FaultValues, timestamp \in FaultTimestamps :
        LET steps == PublishResult(tag_name, value, timestamp).steps
        IN \A i \in DOMAIN steps : P(tag_name, value, timestamp, steps[i])

\* the rule of the step compares with a numeric operator
StepNumeric(s) == StepRule(s).condition \in {">", ">=", "<", "<="}

(***************************************************************************)
(* C11 (as claimed): an update whose value cannot be evaluated against a   *)
(* numeric operator is treated as condition not met: it creates no alarm   *)
(* and no notification at all, and publish returns without raising.        *)
(***************************************************************************)
C11Call(tag_name, r) ==
    /\ ~r.raised
    /\ \A i \in DOMAIN r.steps :
          LET s == r.steps[i]
          IN StepNumeric(s) =>
                /\ DOMAIN s.post.active \subseteq DOMAIN s.pre.active
                /\ s.sent = << >>

C11AmendedCall(tag_name, r) ==
    /\ ~r.raised
    /\ \A i \in DOMAIN r.steps :
          LET s == r.steps[i]
              rule_key == RuleKey(StepRule(s).name, tag_name)
          IN StepNumeric(s) =>
                /\ DOMAIN s.post.active \subseteq DOMAIN s.pre.active
                /\ \A j \in DOMAIN s.sent : s.sent[j].status = "CLEARED"
                /\ s.post.lastn = s.pre.lastn
                /\ IF rule_key \in DOMAIN s.pre.active /\ StepRule(s).auto_clear
                   THEN rule_key \notin DOMAIN s.post.active
                   ELSE StepChangedNothing(s)

C12Step(tag_name, value, timestamp, s) ==
    LET rule == StepRule(s)
        rule_key == RuleKey(rule.name, tag_name)
    IN StepRaised(tag_name, s) =>
          /\ \A c \in Transports \cap NotifEnabled :
                SentOn(s.sent, c) = ListedTimes(rule.channels, c)
          /\ rule_key \in DOMAIN s.post.active
          /\ s.post.active[rule_key].status = "ACTIVE"
          /\ rule_key \in DOMAIN s.post.lastn
          /\ s.post.lastn[rule_key] = Now(timestamp)

C12_ChannelFailureIsIsolated == EveryFaultStep(C12Step)

\* the SMS transport is down, and the alarm of the rule that lists sms before
\* email was raised: it is Active and its notification time is stamped
C12_Witness ==
    /\ "sms" \in chan_down
    /\ PairActive(active_alarms, "A_B", "T")
    /\ RuleKey("A_B", "T") \in DOMAIN last_notification

(***************************************************************************)
(* PublisherManager: the sinks and their start, stop and publish.          *)
(***************************************************************************)
\* PublisherManager.publishers, in the order initialize_publishers appends
\* them; a sink is named by its class name without "Publisher"
Publishers == <<"Alarms", "OPCUAClient", "RESTAPI", "Prometheus">>

Sinks == {Publishers[i] : i \in DOMAIN Publishers}

\* the sinks other than the AlarmsPublisher, whose flags are al_enabled, al_running
OtherSinks == Sinks \ {"Alarms"}

\* publisher.enabled
Enabled(sink) == IF sink = "Alarms" THEN al_enabled ELSE pub_enabled[sink]

\* the tag names and values fed to the dispatcher
MgrTags == {"T", "U"}
MgrValues == {Num(31), Huge}

\* PublisherManager._get_prometheus_publisher() is not None
HasPrometheus == "Prometheus" \in Sinks

\* RESTAPIPublisher.publish that does not test self.enabled
RestPublish_Ungated(cache, tag_name, value, timestamp) ==
    Put(cache, tag_name, [value |-> value, timestamp |-> Now(timestamp)])

\* RESTAPIPublisher.publish: the tag_cache it leaves
RestPublish(cache, tag_name, value, timestamp) ==
    IF ~pub_enabled["RESTAPI"] THEN cache
    ELSE Put(cache, tag_name, [value |-> value, timestamp |-> Now(timestamp)])

\* PrometheusPublisher.publish: the metrics it leaves; Gauge.set(value) calls
\* float(value) and the except branch counts its failure
PrometheusPublish(gauges, tag_name, value) ==
    IF ~pub_enabled["Prometheus"] THEN gauges
    ELSE [gauges EXCEPT
            !.tag_updates[tag_name] = @ + 1,
            !.tag_value = IF value.kind = "num" THEN Put(@, tag_name, value) ELSE @,
            !.tag_update_errors[tag_name] = IF value.kind = "huge" THEN @ + 1 ELSE @]

\* PrometheusPublisher.record_publisher_message, for the labels in names
RecordPublisherMessage(messages, names) ==
    IF ~pub_enabled["Prometheus"] THEN messages
    ELSE [n \in DOMAIN messages |-> IF n \in names THEN messages[n] + 1 ELSE messages[n]]

\* record_publisher_error that counts a failure against every label
RecordPublisherError_CountsEveryLabel(errors, names) ==
    IF ~pub_enabled["Prometheus"] \/ names = {} THEN errors
    ELSE [n \in DOMAIN errors |-> errors[n] + 1]

\* PrometheusPublisher.record_publisher_error, for the labels in names
RecordPublisherError(errors, names) ==
    IF ~pub_enabled["Prometheus"] THEN errors
    ELSE [n \in DOMAIN errors |-> IF n \in names THEN errors[n] + 1 ELSE errors[n]]

\* publish_to_all that disables a sink whose publish raised
EnabledAfterPublish_DisablesFailed(failed) ==
    [s \in Sinks |-> Enabled(s) /\ s \notin failed]

\* publisher.enabled of every sink after publish_to_all: no publish() and
\* neither branch of the loop body assigns it, whatever sinks raised
EnabledAfterPublish(failed) ==
    [s \in Sinks |-> Enabled(s)]

\* PrometheusPublisher.update_system_metrics (the uptime gauge is not modelled)
UpdateSystemMetrics(gauges, tags_count) ==
    IF ~pub_enabled["Prometheus"] THEN gauges
    ELSE [gauges EXCEPT !.tags_total = tags_count]

RECURSIVE PublishLoop_AbortsOnRaise(_, _, _)
RECURSIVE PublishLoop(_, _, _)

\* publish_to_all with the try block around the loop: the first raise ends it
PublishLoop_AbortsOnRaise(i, calls, raises) ==
    IF i > Len(Publishers) THEN [calls |-> calls, outcome |-> "returned"]
    ELSE IF Publishers[i] \in raises
         THEN [calls |-> Append(calls, Publishers[i]), outcome |-> "raised"]
         ELSE PublishLoop_AbortsOnRaise(i + 1, Append(calls, Publishers[i]), raises)

\* PublisherManager.publish_to_all: the control flow of the loop over
\* self.publishers from publisher i on. raises: the sinks whose publish raises
\* in this call; calls: the publish calls made so far. A raise is caught inside
\* the loop body, so the loop goes on with the next publisher.
PublishLoop(i, calls, raises) ==
    IF i > Len(Publishers) THEN [calls |-> calls, outcome |-> "returned"]
    ELSE PublishLoop(i + 1, Append(calls, Publishers[i]), raises)

\* the sinks a call sequence invoked
Called(calls) == {calls[i] : i \in DOMAIN calls}

\* PublisherManager.get_publisher_statuses: name_map has no key 'RESTAPI', so
\* that class keeps its class name
FriendlyName(class_name) ==
    CASE class_name = "OPCUAClient" -> "OPC UA Client"
      [] class_name = "SQLitePersistence" -> "SQLite Persistence"
      [] OTHER -> class_name

GetPublisherStatuses ==
    [i \in DOMAIN Publishers |->
        [name |-> FriendlyName(Publishers[i]), enabled |-> Enabled(Publishers[i]),
         class |-> Publishers[i] \o "Publisher"]]

(***************************************************************************)
(* PublisherManager: actions.                                              *)
(***************************************************************************)
\* the PrometheusPublisher metrics before any update
NoGauges ==
    [total |-> 0, enabled |-> 0, health |-> EmptyMap, tags_total |-> 0,
     tag_updates |-> [t \in MgrTags |-> 0],
     tag_update_errors |-> [t \in MgrTags |-> 0],
     tag_value |-> EmptyMap]

\* PublisherManager.initialize_publishers; enabled is each sink's enabled flag
\* after its constructor (false when the sink's library is missing)
InitManager(enabled) ==
    /\ pub_enabled = enabled
    /\ pub_running = [s \in OtherSinks |-> FALSE]
    /\ tag_cache = EmptyMap
    /\ rest_statuses = << >>
    /\ prom_messages = [s \in Sinks \ {"Prometheus"} |-> 0]
    /\ prom_errors = [s \in Sinks |-> 0]
    /\ prom_gauges = NoGauges
    /\ g_calls = << >>
    /\ g_raised = {}
    /\ g_outcome = "none"

\* every sink constructed with enabled = true
AllEnabled == [s \in OtherSinks |-> TRUE]

\* the enabled flags after construction: the opcua and prometheus_client
\* libraries may be missing
EnabledAtInit == {e \in [OtherSinks -> BOOLEAN] : e["RESTAPI"]}

\* PublisherManager.start_all; rest_ok: RESTAPIPublisher.start got its thread
StartAll(rest_ok) ==
    LET statuses == GetPublisherStatuses
    IN /\ al_running' = IF al_enabled THEN TRUE ELSE al_running
       /\ pub_running' =
            [s \in OtherSinks |->
                CASE s = "RESTAPI" -> IF pub_enabled[s] THEN rest_ok ELSE pub_running[s]
                  [] s = "OPCUAClient" -> IF pub_enabled[s] THEN TRUE ELSE pub_running[s]
                  [] OTHER -> pub_running[s]]
       /\ rest_statuses' = statuses
       /\ prom_gauges' =
            IF ~pub_enabled["Prometheus"] THEN prom_gauges
            ELSE [prom_gauges EXCEPT
                    !.total = Len(statuses),
                    !.enabled = Cardinality({i \in DOMAIN statuses : statuses[i].enabled}),
                    !.health = [n \in {statuses[i].name : i \in DOMAIN statuses} |->
                                   IF \E i \in DOMAIN statuses :
                                         statuses[i].name = n /\ statuses[i].enabled
                                   THEN 1 ELSE 0]]
       /\ UNCHANGED <<al_enabled, parsed_rules, active_alarms, alarm_history,
                      last_notification, g_notified, clock>>
       /\ UNCHANGED <<pub_enabled, tag_cache, prom_messages, prom_errors,
                      g_calls, g_raised, g_outcome, sideVars>>

\* PublisherManager.stop_all
StopAll ==
    /\ al_running' = FALSE
    /\ pub_running' =
          [s \in OtherSinks |->
              CASE s = "RESTAPI" -> FALSE
                [] s = "OPCUAClient" -> IF pub_enabled[s] THEN FALSE ELSE pub_running[s]
                [] OTHER -> pub_running[s]]
    /\ UNCHANGED <<al_enabled, parsed_rules, active_alarms, alarm_history,
                   last_notification, g_notified, clock>>
    /\ UNCHANGED <<pub_enabled, tag_cache, rest_statuses, prom_messages, prom_errors,
                   prom_gauges, g_calls, g_raised, g_outcome, sideVars>>

\* PublisherManager.publish_to_all; opcua_raises: the iteration over
\* OPCUAClientPublisher.clients, which stop() and the reconnect thread change
\* concurrently, raises RuntimeError
PublishToAll(tag_name, value, timestamp, opcua_raises) ==
    /\ opcua_raises => pub_enabled["OPCUAClient"]
    /\ \A s \in DOMAIN prom_messages : prom_messages[s] < MaxCount
    /\ \A s \in DOMAIN prom_errors : prom_errors[s] < MaxCount
    /\ \A t \in MgrTags : prom_gauges.tag_updates[t] < MaxCount
    /\ LET alarms == PublishResult(tag_name, value, timestamp)
           raises == (IF alarms.raised THEN {"Alarms"} ELSE {})
                     \cup (IF opcua_raises THEN {"OPCUAClient"} ELSE {})
           r == PublishLoop(1, << >>, raises)
           failed == Called(r.calls) \cap raises
           delivered == Called(r.calls) \ raises
           published == IF "Prometheus" \in delivered
                        THEN PrometheusPublish(prom_gauges, tag_name, value)
                        ELSE prom_gauges
           flags == EnabledAfterPublish(failed)
       IN /\ al_enabled' = flags["Alarms"]
          /\ pub_enabled' = [s \in OtherSinks |-> flags[s]]
          /\ active_alarms' = alarms.st.active
          /\ alarm_history' = alarms.st.history
          /\ last_notification' = alarms.st.lastn
          /\ g_notified' = alarms.st.notified
          /\ tag_cache' = IF "RESTAPI" \in delivered
                          THEN RestPublish(tag_cache, tag_name, value, timestamp)
                          ELSE tag_cache
          /\ prom_messages' = IF HasPrometheus
                              THEN RecordPublisherMessage(prom_messages,
                                                          delivered \ {"Prometheus"})
                              ELSE prom_messages
          /\ prom_errors' = IF HasPrometheus
                            THEN RecordPublisherError(prom_errors, failed)
                            ELSE prom_errors
          /\ prom_gauges' = IF r.outcome = "returned" /\ HasPrometheus
                            THEN UpdateSystemMetrics(published, 1)
                            ELSE published
          /\ g_calls' = r.calls
          /\ g_raised' = raises
          /\ g_outcome' = r.outcome
    /\ UNCHANGED <<al_running, parsed_rules, pub_running, rest_statuses, clock,
                   sideVars>>

(***************************************************************************)
(* C1: publish_to_all invokes publish on every registered sink exactly     *)
(* once and returns normally, also when sinks raise: a raising sink never  *)
(* prevents delivery to the sinks after it and never aborts the call.      *)
(***************************************************************************)
C1_FanOutReachesEverySink ==
    g_outcome # "none" =>
        /\ g_outcome = "returned"
        /\ g_calls = Publishers
        /\ \A s \in Sinks : Cardinality({i \in DOMAIN g_calls : g_calls[i] = s}) = 1

\* the first two sinks raised in one call, the REST sink after them cached the
\* update and the call returned
C1_Witness ==
    /\ g_outcome = "returned"
    /\ g_raised = {"Alarms", "OPCUAClient"}
    /\ g_calls = Publishers
    /\ "T" \in DOMAIN tag_cache /\ tag_cache["T"].value = Huge
    /\ prom_errors["Alarms"] = 1 /\ prom_errors["OPCUAClient"] = 1
    /\ prom_messages["RESTAPI"] = 1

\* a step of publish_to_all, for some arguments
PublishToAllStep ==
    \E tag_name \in MgrTags, value \in MgrValues, timestamp \in Timestamps,
       opcua_raises \in BOOLEAN :
        PublishToAll(tag_name, value, timestamp, opcua_raises)

Running(sink) == IF sink = "Alarms" THEN al_running ELSE pub_running[sink]

(***************************************************************************)
(* C37 (as claimed): a sink's messages-sent counter is incremented only    *)
(* for an update that the sink actually accepted: publish_to_all never     *)
(* increments the messages counter of a sink that is disabled or not       *)
(* running, nor of a sink whose publish raised.                            *)
(***************************************************************************)
C37_MessagesCountAcceptedUpdates ==
    [][PublishToAllStep =>
          \A s \in DOMAIN prom_messages :
              prom_messages'[s] # prom_messages[s]
                 => Enabled(s) /\ Running(s) /\ s \notin g_raised']_vars

\* the call counted one error for each sink whose publish raised and none for
\* the others
ErrorsCountTheRaises ==
    \A s \in Sinks :
        prom_errors'[s] = prom_errors[s] + (IF s \in g_raised' THEN 1 ELSE 0)

PyBool(b) == [kind |-> "bool", n |-> IF b THEN 1 ELSE 0, s |-> << >>]
PyInt(n) == [kind |-> "int", n |-> n, s |-> << >>]
PyFloat(n) == [kind |-> "float", n |-> n, s |-> << >>]
PyStr(s) == [kind |-> "str", n |-> 0, s |-> s]

\* the tag names and tag types of the Modbus sink
MbTags == {"S", "X"}
MbTypes == {"float", "int", "bool", "string"}

\* allocate_registers: "Determine number of registers needed"
NumRegisters(tag_type) ==
    CASE tag_type = "float" -> 2
      [] tag_type = "int" -> 1
      [] tag_type = "bool" -> 1
      [] tag_type = "string" -> 32
      [] OTHER -> 1

\* one entry of tag_register_map
MapEntry(start_register, num_registers, tag_type) ==
    [start_register |-> start_register, num_registers |-> num_registers,
     type |-> tag_type]

\* the result of allocate_registers: the map and counter it leaves, the start
\* register it returns
Allocation(map, next, ret) == [map |-> map, next |-> next, ret |-> ret]

\* allocate_registers that leaves next_register alone
AllocateRegisters_KeepsCounter(map, next, tag_name, tag_type) ==
    IF tag_name \in DOMAIN map
    THEN Allocation(map, next, map[tag_name].start_register)
    ELSE Allocation(Put(map, tag_name, MapEntry(next, NumRegisters(tag_type), tag_type)),
                    next, next)

\* allocate_registers without the early return for a tag it already holds
AllocateRegisters_NoEarlyReturn(map, next, tag_name, tag_type) ==
    Allocation(Put(map, tag_name, MapEntry(next, NumRegisters(tag_type), tag_type)),
               next + NumRegisters(tag_type), next)

\* ModbusTCPPublisher.allocate_registers
AllocateRegisters(map, next, tag_name, tag_type) ==
    IF tag_name \in DOMAIN map
    THEN Allocation(map, next, map[tag_name].start_register)
    ELSE Allocation(Put(map, tag_name, MapEntry(next, NumRegisters(tag_type), tag_type)),
                    next + NumRegisters(tag_type), next)

\* one item of config["register_mapping"]; register = NoRegister: the item has
\* no "register" key
NoRegister == -1
Mapping(tag_name, tag_type, register) ==
    [tag |-> tag_name, type |-> tag_type, register |-> register]

\* the register_mapping configurations
StaticNone == << >>
StaticString == <<Mapping("S", "string", 0)>>
StaticInt == <<Mapping("X", "int", 5), Mapping("S", "float", NoRegister)>>
StaticConfigs == {StaticNone, StaticString, StaticInt}

Max(a, b) == IF a >= b THEN a ELSE b

\* ModbusTCPPublisher.start, "Initialize register mapping from config": the
\* map and counter it leaves, from item i on
RECURSIVE LoadMapping(_, _, _)
LoadMapping(i, map, next) ==
    IF i > Len(register_mapping) THEN [map |-> map, next |-> next]
    ELSE LET mapping == register_mapping[i]
             num_regs == IF mapping.type = "float" THEN 2 ELSE 1
         IN IF mapping.register # NoRegister
            THEN LoadMapping(i + 1,
                             Put(map, mapping.tag,
                                 MapEntry(mapping.register, num_regs, mapping.type)),
                             Max(next, mapping.register + num_regs))
            ELSE LoadMapping(i + 1, map, next)

\* publish, "Auto-allocate if not in mapping": the type chosen for a value
AutoType(value) ==
    CASE value.kind = "bool" -> "bool"
      [] value.kind = "int" -> "int"
      [] value.kind = "str" -> "string"
      [] OTHER -> "float"

\* struct.unpack('>HH', struct.pack('>f', float(n))) for the numbers published
FloatRegisters(n) ==
    CASE n = 0 -> <<0, 0>>
      [] n = 1 -> <<16256, 0>>
      [] n = 2 -> <<16384, 0>>
      [] n = 3 -> <<16448, 0>>
      [] n = 7 -> <<16608, 0>>

\* the decimal digits of a natural number, as code points
RECURSIVE Digits(_)
Digits(n) == IF n < 10 THEN <<48 + n>> ELSE Digits(n \div 10) \o <<48 + (n % 10)>>

\* str(value)
StrOf(value) ==
    CASE value.kind = "str" -> value.s
      [] value.kind = "bool" -> IF value.n = 1 THEN <<84, 114, 117, 101>>
                                ELSE <<70, 97, 108, 115, 101>>
      [] value.kind = "int" -> IF value.n < 0 THEN <<45>> \o Digits(-value.n)
                               ELSE Digits(value.n)
      [] value.kind = "float" -> (IF value.n < 0 THEN <<45>> \o Digits(-value.n)
                                  ELSE Digits(value.n)) \o <<46, 48>>

\* x & 0xFFFF on a Python int: the low 16 bits of its two's complement
Low16(x) == x % 65536

\* the "int" branch without the clamp
IntRegister_Wraps(int_value) == Low16(int_value)

\* value_to_registers, "int": clamp to signed 16 bits, then "& 0xFFFF"
IntRegister(int_value) ==
    LET clamped == IF int_value > 32767 THEN 32767
                   ELSE IF int_value < -32768 THEN -32768
                   ELSE int_value
    IN Low16(clamped)

\* the "string" branch that adds the two characters of a register
RECURSIVE CharRegisters_AddsBytes(_)
CharRegisters_AddsBytes(str_value) ==
    IF str_value = << >> THEN << >>
    ELSE IF Len(str_value) = 1 THEN <<str_value[1]>>
    ELSE <<str_value[1] + str_value[2]>>
         \o CharRegisters_AddsBytes(SubSeq(str_value, 3, Len(str_value)))

\* a | b on non-negative Python ints
RECURSIVE BitOr(_, _)
BitOr(a, b) ==
    IF a = 0 THEN b
    ELSE IF b = 0 THEN a
    ELSE 2 * BitOr(a \div 2, b \div 2) + (IF a % 2 = 1 \/ b % 2 = 1 THEN 1 ELSE 0)

\* value_to_registers, "string": two characters per register,
\* (ord(char1) << 8) | ord(char2)
RECURSIVE CharRegisters(_)
CharRegisters(str_value) ==
    IF str_value = << >> THEN << >>
    ELSE IF Len(str_value) = 1 THEN <<BitOr(str_value[1] * 256, 0)>>
    ELSE <<BitOr(str_value[1] * 256, str_value[2])>>
         \o CharRegisters(SubSeq(str_value, 3, Len(str_value)))

\* value_to_registers, "string": truncate to 64 characters, pad to 32 registers
StringRegisters(s) ==
    LET str_value == SubSeq(s, 1, IF Len(s) < 64 THEN Len(s) ELSE 64)
        registers == CharRegisters(str_value)
    IN registers \o [i \in 1..(32 - Len(registers)) |-> 0]

\* ModbusTCPPublisher.value_to_registers: [ok |-> it returned, words |-> the
\* registers]; float("hi") and int("hi") raise ValueError
ValueToRegisters(value, tag_type) ==
    CASE tag_type = "float" ->
            IF value.kind = "str" THEN [ok |-> FALSE, words |-> << >>]
            ELSE [ok |-> TRUE, words |-> FloatRegisters(value.n)]
      [] tag_type = "int" ->
            IF value.kind = "str" THEN [ok |-> FALSE, words |-> << >>]
            ELSE [ok |-> TRUE, words |-> <<IntRegister(value.n)>>]
      [] tag_type = "bool" ->
            [ok |-> TRUE,
             words |-> <<IF value.kind = "str" THEN (IF value.s # << >> THEN 1 ELSE 0)
                         ELSE (IF value.n # 0 THEN 1 ELSE 0)>>]
      [] tag_type = "string" -> [ok |-> TRUE, words |-> StringRegisters(StrOf(value))]
      [] OTHER -> [ok |-> TRUE, words |-> <<0>>]

\* slave_context.setValues(3, start_register + i, [reg_value]) for each word
RECURSIVE SetValues(_, _, _)
SetValues(registers, address, words) ==
    IF words = << >> THEN registers
    ELSE SetValues(IF Head(words) = 0 THEN Del(registers, address)
                   ELSE Put(registers, address, Head(words)),
                   address + 1, Tail(words))

\* the values published to the Modbus sink
MbValues == {PyBool(TRUE), PyInt(7), PyFloat(1), PyStr(<<104, 105>>)}

\* no allocate_registers call was made yet
NoCall == [tag |-> "", type |-> "", ret |-> -1]

\* ModbusTCPPublisher.__init__
InitModbus(enabled, configs) ==
    /\ mb_enabled \in enabled
    /\ mb_running = FALSE
    /\ register_mapping \in configs
    /\ tag_register_map = EmptyMap
    /\ next_register = 0
    /\ holding_registers = EmptyMap
    /\ mb_allocated = NoCall

\* the variables the Modbus sink does not touch
notMbVars == <<alarmVars, mgrVars, clock, faultVars, extraVars, cdVars, sqVars, gqVars>>

\* a call of allocate_registers from outside the sink
MbAllocate(tag_name, tag_type) ==
    LET r == AllocateRegisters(tag_register_map, next_register, tag_name, tag_type)
    IN /\ tag_register_map' = r.map
       /\ next_register' = r.next
       /\ mb_allocated' = [tag |-> tag_name, type |-> tag_type, ret |-> r.ret]
       /\ UNCHANGED <<mb_enabled, mb_running, register_mapping, holding_registers,
                      notMbVars>>

\* ModbusTCPPublisher.start
MbStart ==
    IF ~mb_enabled
    THEN UNCHANGED vars
    ELSE LET r == LoadMapping(1, tag_register_map, next_register)
         IN /\ tag_register_map' = r.map
            /\ next_register' = r.next
            /\ holding_registers' = EmptyMap  \* a new datastore of zeros
            /\ mb_running' = TRUE
            /\ UNCHANGED <<mb_enabled, register_mapping, mb_allocated, notMbVars>>

\* ModbusTCPPublisher.stop
MbStop ==
    /\ mb_running' = FALSE
    /\ UNCHANGED <<mb_enabled, register_mapping, tag_register_map, next_register,
                   holding_registers, mb_allocated, notMbVars>>

\* ModbusTCPPublisher.publish: the sink's state after it
MbPublishResult(tag_name, value) ==
    IF ~mb_enabled \/ ~mb_running
    THEN [map |-> tag_register_map, next |-> next_register,
          registers |-> holding_registers, allocated |-> mb_allocated]
    ELSE LET known == tag_name \in DOMAIN tag_register_map
             r == AllocateRegisters(tag_register_map, next_register, tag_name,
                                    AutoType(value))
             map == IF known THEN tag_register_map ELSE r.map
             next == IF known THEN next_register ELSE r.next
             tag_info == map[tag_name]
             out == ValueToRegisters(value, tag_info.type)
         IN [map |-> map, next |-> next,
             registers |-> IF out.ok
                           THEN SetValues(holding_registers, tag_info.start_register,
                                          out.words)
                           ELSE holding_registers,
             allocated |-> IF known THEN mb_allocated
                           ELSE [tag |-> tag_name, type |-> AutoType(value),
                                 ret |-> r.ret]]

\* ModbusTCPPublisher.publish
MbPublish(tag_name, value) ==
    LET r == MbPublishResult(tag_name, value)
    IN /\ tag_register_map' = r.map
       /\ next_register' = r.next
       /\ holding_registers' = r.registers
       /\ mb_allocated' = r.allocated
       /\ UNCHANGED <<mb_enabled, mb_running, register_mapping, notMbVars>>

(***************************************************************************)
(* ModbusTCPPublisher: vocabulary of the properties.                       *)
(***************************************************************************)
\* the registers [start, start + word count) of a map entry
RegisterRange(entry) ==
    entry.start_register .. (entry.start_register + entry.num_registers - 1)

\* the registers a tag of the entry's type occupies: value_to_registers
\* returns 2 words for a float, 1 for an int or a bool, 32 for a string
OccupiedRange(entry) ==
    entry.start_register .. (entry.start_register + NumRegisters(entry.type) - 1)

\* the items of register_mapping that assign a register
StaticItems == {i \in DOMAIN register_mapping : register_mapping[i].register # NoRegister}
StaticTags == {register_mapping[i].tag : i \in StaticItems}

\* start() has loaded register_mapping into the map
StaticLoaded ==
    \A i \in StaticItems :
        /\ register_mapping[i].tag \in DOMAIN tag_register_map
        /\ tag_register_map[register_mapping[i].tag].start_register
              = register_mapping[i].register
        /\ tag_register_map[register_mapping[i].tag].type = register_mapping[i].type

(***************************************************************************)
(* C13: the range allocate_registers gives to a tag that has none          *)
(* intersects no range of the map; so, with no static register mapping,    *)
(* after any sequence of allocate_registers calls (direct or from publish) *)
(* with float, int, bool and string kinds no two tags' ranges intersect.   *)
(***************************************************************************)
C13_AllocationsNeverOverlap ==
    /\ \A tag_name \in MbTags \ DOMAIN tag_register_map, tag_type \in MbTypes :
          LET r == AllocateRegisters(tag_register_map, next_register, tag_name, tag_type)
          IN \A t \in DOMAIN tag_register_map :
                RegisterRange(r.map[tag_name]) \cap RegisterRange(tag_register_map[t]) = {}
    /\ StaticItems = {} =>
          \A t1, t2 \in DOMAIN tag_register_map :
              t1 # t2 => RegisterRange(tag_register_map[t1])
                            \cap RegisterRange(tag_register_map[t2]) = {}

\* a string tag and a tag of another kind hold ranges, the second allocated
\* after the first
C13_Witness ==
    /\ StaticItems = {}
    /\ DOMAIN tag_register_map = MbTags
    /\ \E t \in MbTags : tag_register_map[t].type = "string"
    /\ \E t \in MbTags : tag_register_map[t].type = "float"
    /\ mb_allocated.ret > 0

C15_AllocationNeverMoves ==
    [][\A t \in DOMAIN tag_register_map :
          /\ t \in DOMAIN tag_register_map'
          /\ tag_register_map'[t].start_register = tag_register_map[t].start_register
          /\ tag_register_map'[t].num_registers = tag_register_map[t].num_registers]_vars

(***************************************************************************)
(* C16 (as claimed): once start() has loaded the static mappings, the      *)
(* range given to a tag that had none intersects the registers occupied by *)
(* no statically mapped tag, whatever its kind.                            *)
(***************************************************************************)
C16_AutoAllocationAvoidsStatic ==
    [][StaticLoaded =>
          \A x \in DOMAIN tag_register_map' \ DOMAIN tag_register_map :
              \A s \in StaticTags :
                  RegisterRange(tag_register_map'[x])
                      \cap OccupiedRange(tag_register_map[s]) = {}]_vars

(***************************************************************************)
(* C34 (as claimed): for every tag, the number of words value_to_registers *)
(* produces for the tag's recorded kind equals the tag's allocated word    *)
(* count, for auto-allocated and statically mapped tags alike, so publish  *)
(* writes only registers inside that tag's own range and never changes a   *)
(* register allocated to another tag.                                      *)
(***************************************************************************)
C34_WordsFitTheAllocation ==
    \A tag_name \in MbTags, value \in MbValues :
        LET r == MbPublishResult(tag_name, value)
            written == {reg \in DOMAIN r.registers :
                          reg \notin DOMAIN holding_registers
                          \/ r.registers[reg] # holding_registers[reg]}
        IN /\ tag_name \in DOMAIN tag_register_map =>
                 LET out == ValueToRegisters(value, tag_register_map[tag_name].type)
                 IN out.ok => Len(out.words) = tag_register_map[tag_name].num_registers
           /\ written # {} => written \subseteq RegisterRange(r.map[tag_name])

(***************************************************************************)
(* The register codec, value_to_registers, applied to one value of its own *)
(* kind (the type publish chooses for it).                                 *)
(***************************************************************************)
\* the longest string encoded
MaxLen == 3

\* the characters of the strings encoded: NUL, "A", the last single-byte
\* character, and the euro sign U+20AC
CodecChars == {0, 65, 255, 8364}
CodecStrings == UNION {[1..n -> CodecChars] : n \in 0..MaxLen}

\* the integers encoded: around zero, around both ends of the signed 16-bit
\* range, and beyond the unsigned 16-bit range
CodecInts ==
    (-32770..-32766) \cup (-2..2) \cup (32765..32769)
        \cup {-98304, -65536, -40000, 40000, 65535, 65536, 98304}

CodecInputs ==
    {PyInt(n) : n \in CodecInts} \cup {PyBool(TRUE), PyBool(FALSE)}
        \cup {PyStr(s) : s \in CodecStrings}

\* value_to_registers was not called yet
NoOutput == [ok |-> FALSE, words |-> <<-1>>]

InitCodec ==
    /\ cd_value \in CodecInputs
    /\ cd_out = NoOutput

IdleCodec ==
    /\ cd_value = PyInt(0)
    /\ cd_out = NoOutput

\* value_to_registers(value, tag_type) with the type of the value's kind
Encode ==
    /\ cd_out = NoOutput
    /\ cd_out' = ValueToRegisters(cd_value, AutoType(cd_value))
    /\ UNCHANGED <<cd_value, alarmVars, mgrVars, clock, faultVars, extraVars, mbVars, sqVars, gqVars>>

\* clamp(v, -32768, 32767)
Clamp16(v) == IF v < -32768 THEN -32768 ELSE IF v > 32767 THEN 32767 ELSE v

\* the in-range inputs of a kind: integers of the signed 16-bit range,
\* booleans, strings of at most 64 single-byte characters
InRange(value) ==
    CASE value.kind = "int" -> value.n \in -32768..32767
      [] value.kind = "bool" -> value.n \in {0, 1}
      [] value.kind = "str" ->
            /\ Len(value.s) <= 64
            /\ \A i \in DOMAIN value.s : value.s[i] \in 0..255
      [] OTHER -> FALSE

\* a string whose last character is NUL
EndsInNul(value) ==
    value.kind = "str" /\ value.s # << >> /\ value.s[Len(value.s)] = 0

\* the in-range inputs of the kind of value that encode to the same words
SameWords(value, out) ==
    {b \in CodecInputs : /\ b.kind = value.kind
                         /\ InRange(b)
                         /\ ValueToRegisters(b, AutoType(b)) = out}

(***************************************************************************)
(* C17: encoding an integer v as kind int returns, without raising,        *)
(* exactly one word, equal to clamp(v, -32768, 32767) mod 2^16; a value    *)
(* above 32767 encodes like 32767 and a value below -32768 like -32768.    *)
(***************************************************************************)
C17_IntSaturates ==
    (cd_value.kind = "int" /\ cd_out # NoOutput) =>
        /\ cd_out.ok
        /\ Len(cd_out.words) = 1
        /\ cd_out.words[1] = Clamp16(cd_value.n) % 65536
        /\ cd_value.n > 32767 => cd_out = ValueToRegisters(PyInt(32767), "int")
        /\ cd_value.n < -32768 => cd_out = ValueToRegisters(PyInt(-32768), "int")

\* 40000 was encoded, to the word of 32767
C17_Witness ==
    /\ cd_value = PyInt(40000)
    /\ cd_out = [ok |-> TRUE, words |-> <<32767>>]

(***************************************************************************)
(* C35 (as claimed): every word produced by value_to_registers, for any    *)
(* kind and any input value (including strings with characters whose code  *)
(* point is above 255), is an integer in 0..65535, and a string always     *)
(* encodes to exactly 32 words: two characters per word with the first in  *)
(* the high byte, zero-padded, characters beyond the 64th dropped.         *)
(***************************************************************************)
C35_WordsAreSixteenBit ==
    (cd_out # NoOutput /\ cd_out.ok) =>
        /\ \A i \in DOMAIN cd_out.words : cd_out.words[i] \in 0..65535
        /\ cd_value.kind = "str" =>
              /\ Len(cd_out.words) = 32
              /\ \A i \in 1..32 :
                    LET Char(k) == IF k <= Len(cd_value.s) /\ k <= 64
                                   THEN cd_value.s[k] ELSE 0
                    IN /\ cd_out.words[i] \div 256 = Char(2 * i - 1)
                       /\ cd_out.words[i] % 256 = Char(2 * i)

(***************************************************************************)
(* C18 (as claimed): value_to_registers is injective on the in-range       *)
(* inputs of each kind: integers in [-32768, 32767], booleans, strings of  *)
(* at most 64 single-byte characters.                                      *)
(***************************************************************************)
C18_EncodeInjective ==
    (cd_out # NoOutput /\ InRange(cd_value)) =>
        SameWords(cd_value, cd_out) = {cd_value}

(***************************************************************************)
(* C18 (amended): value_to_registers is injective on the integers in       *)
(* [-32768, 32767], on the booleans, and on the strings of at most 64      *)
(* single-byte characters that do not end in a NUL character (the padding  *)
(* of the string slot is NUL).                                             *)
(***************************************************************************)
C18_EncodeInjectiveWithoutPadding ==
    (cd_out # NoOutput /\ InRange(cd_value) /\ ~EndsInNul(cd_value)) =>
        {b \in SameWords(cd_value, cd_out) : ~EndsInNul(b)} = {cd_value}

\* a string with a NUL inside and the last single-byte character at its end
\* was encoded
C18_Witness ==
    /\ cd_value = PyStr(<<65, 0, 255>>)
    /\ cd_out.ok
    /\ Len(cd_out.words) = 32
    /\ cd_out.words[1] = 16640
    /\ cd_out.words[2] = 65280

(***************************************************************************)
(* The sinks called directly: RESTAPIPublisher, SQLitePersistencePublisher *)
(* and GraphQLPublisher beside the AlarmsPublisher and ModbusTCPPublisher. *)
(* The graphene and flask libraries are available.                         *)
(***************************************************************************)
\* RESTAPIPublisher.start; rest_ok: the server thread was created
RestStart(rest_ok) ==
    /\ pub_running' = [pub_running EXCEPT
                          !["RESTAPI"] = IF pub_enabled["RESTAPI"] THEN rest_ok ELSE @]
    /\ UNCHANGED <<pub_enabled, tag_cache, rest_statuses, prom_messages, prom_errors,
                   prom_gauges, g_calls, g_raised, g_outcome, alarmVars, clock, sideVars>>

\* RESTAPIPublisher.stop
RestStop ==
    /\ pub_running' = [pub_running EXCEPT !["RESTAPI"] = FALSE]
    /\ UNCHANGED <<pub_enabled, tag_cache, rest_statuses, prom_messages, prom_errors,
                   prom_gauges, g_calls, g_raised, g_outcome, alarmVars, clock, sideVars>>

\* RESTAPIPublisher.publish, called on the sink
RestPublishCall(tag_name, value, timestamp) ==
    /\ tag_cache' = RestPublish(tag_cache, tag_name, value, timestamp)
    /\ UNCHANGED <<pub_enabled, pub_running, rest_statuses, prom_messages, prom_errors,
                   prom_gauges, g_calls, g_raised, g_outcome, alarmVars, clock, sideVars>>

\* config["batch_size"] of the SQLite sink; enable_tag_history is true and
\* enable_audit_log is false, so _log_audit_event returns at once
BatchSize == 2

\* the most entries the write buffer and the table hold together
SqCap == BatchSize + MaxCount

\* the state of the SQLite sink that publish and the flush read and write
SqState(buffer, rows) == [buffer |-> buffer, rows |-> rows]

\* SQLitePersistencePublisher._flush_tag_history: with no connection
\* self.connection.cursor() raises, the except branch logs, the buffer stays
FlushTagHistory(st) ==
    IF st.buffer = << >> THEN st
    ELSE IF sq_connected THEN SqState(<< >>, st.rows \o st.buffer)
    ELSE st

\* SQLitePersistencePublisher.publish that puts the new record first
SqPublishResult_Prepends(tag_name, value, data_type) ==
    IF ~sq_enabled THEN SqState(write_buffer, sq_rows)
    ELSE LET row == [tag_name |-> tag_name, value |-> StrOf(value),
                     data_type |-> data_type, timestamp |-> clock]
             st == SqState(<<row>> \o write_buffer, sq_rows)
         IN IF Len(st.buffer) >= BatchSize THEN FlushTagHistory(st) ELSE st

\* SQLitePersistencePublisher.publish: the state it leaves
SqPublishResult(tag_name, value, data_type) ==
    IF ~sq_enabled THEN SqState(write_buffer, sq_rows)
    ELSE LET row == [tag_name |-> tag_name, value |-> StrOf(value),
                     data_type |-> data_type, timestamp |-> clock]
             st == SqState(Append(write_buffer, row), sq_rows)
         IN IF Len(st.buffer) >= BatchSize THEN FlushTagHistory(st) ELSE st

\* the audit events of the SQLite sink: how many are in self.audit_buffer and
\* how many are rows of table audit_log
AuditState(buffer, rows) == [buffer |-> buffer, rows |-> rows]

\* SQLitePersistencePublisher._flush_audit_log with the connection open or not
FlushAuditLog(au, connected) ==
    IF au.buffer = 0 THEN au
    ELSE IF connected THEN AuditState(0, au.rows + au.buffer)
    ELSE au

\* SQLitePersistencePublisher._log_audit_event
LogAuditEvent(au, enabled, connected) ==
    IF ~enabled \/ ~enable_audit_log THEN au
    ELSE LET logged == AuditState(au.buffer + 1, au.rows)
         IN IF logged.buffer >= BatchSize THEN FlushAuditLog(logged, connected)
            ELSE logged

\* SQLitePersistencePublisher.start; outcome: _init_database returned, or
\* sqlite3.connect raised, or a statement after it raised
SqStart(outcome) ==
    LET connected == IF outcome = "connect_raised" THEN sq_connected ELSE TRUE
        au == IF outcome = "ok"
              THEN LogAuditEvent(AuditState(audit_buffer, audit_rows), TRUE, connected)
              ELSE AuditState(audit_buffer, audit_rows)
    IN /\ enable_audit_log => audit_buffer + audit_rows < SqCap
       /\ sq_enabled' = (outcome = "ok")
       /\ sq_connected' = connected
       /\ audit_buffer' = au.buffer
       /\ audit_rows' = au.rows
       /\ UNCHANGED <<write_buffer, sq_rows, alarmVars, mgrVars, clock, faultVars,
                      notAuditVars, mbVars, cdVars, gqVars>>

\* SQLitePersistencePublisher.stop: the buffers and tables it leaves
SqStopResult ==
    LET st == FlushTagHistory(SqState(write_buffer, sq_rows))
        flushed == FlushAuditLog(AuditState(audit_buffer, audit_rows), sq_connected)
        au == LogAuditEvent(flushed, sq_enabled, sq_connected)
    IN [buffer |-> st.buffer, rows |-> st.rows,
        audit_buffer |-> au.buffer, audit_rows |-> au.rows]

\* SQLitePersistencePublisher.stop
SqStop ==
    LET r == SqStopResult
    IN /\ enable_audit_log => audit_buffer + audit_rows < SqCap
       /\ write_buffer' = r.buffer
       /\ sq_rows' = r.rows
       /\ audit_buffer' = r.audit_buffer
       /\ audit_rows' = r.audit_rows
       /\ sq_connected' = FALSE
       /\ sq_enabled' = FALSE
       /\ UNCHANGED <<alarmVars, mgrVars, clock, faultVars, notAuditVars, mbVars, cdVars,
                      gqVars>>

\* SQLitePersistencePublisher.publish
SqPublish(tag_name, value, data_type) ==
    LET st == SqPublishResult(tag_name, value, data_type)
    IN /\ sq_enabled => Len(write_buffer) + Len(sq_rows) < SqCap
       /\ write_buffer' = st.buffer
       /\ sq_rows' = st.rows
       /\ UNCHANGED <<sq_enabled, sq_connected, alarmVars, mgrVars, clock, faultVars, extraVars,
                      mbVars, cdVars, gqVars>>

\* SQLitePersistencePublisher.__init__
InitSqlite(enabled) ==
    /\ sq_enabled \in enabled
    /\ sq_connected = FALSE
    /\ write_buffer = << >>
    /\ sq_rows = << >>

(***************************************************************************)
(* C38 (as claimed): after SQLitePersistencePublisher.stop() returns on a  *)
(* started sink, every tag record and audit event accepted before or       *)
(* during stop (including the 'Publisher stopped' audit event logged by    *)
(* stop itself) has been written to the database, and both the write       *)
(* buffer and the audit buffer are empty.                                  *)
(***************************************************************************)
C38_StopWritesEverything ==
    (sq_enabled /\ sq_connected /\ enable_audit_log) =>
        LET r == SqStopResult
        IN /\ r.buffer = << >>
           /\ r.rows = sq_rows \o write_buffer
           /\ r.audit_buffer = 0
           /\ r.audit_rows = audit_rows + audit_buffer + 1

\* GraphQLPublisher.publish: the tags_data it leaves
GqPublishResult(tag_name, value, timestamp) ==
    IF ~gq_enabled THEN tags_data
    ELSE Put(tags_data, tag_name,
             [value |-> value, type |-> value.kind, timestamp |-> Now(timestamp)])

\* GraphQLPublisher.start: it never sets self.running
GqStart ==
    /\ gq_started' = IF gq_enabled THEN TRUE ELSE gq_started
    /\ UNCHANGED <<gq_enabled, tags_data, alarmVars, mgrVars, clock, faultVars, extraVars, mbVars,
                   cdVars, sqVars>>

\* GraphQLPublisher.stop: it only logs
GqStop ==
    /\ gq_started' = FALSE
    /\ UNCHANGED <<gq_enabled, tags_data, alarmVars, mgrVars, clock, faultVars, extraVars, mbVars,
                   cdVars, sqVars>>

\* GraphQLPublisher.publish
GqPublish(tag_name, value, timestamp) ==
    /\ tags_data' = GqPublishResult(tag_name, value, timestamp)
    /\ UNCHANGED <<gq_enabled, gq_started, alarmVars, mgrVars, clock, faultVars, extraVars, mbVars,
                   cdVars, sqVars>>

\* GraphQLPublisher.__init__
InitGraphql(enabled) ==
    /\ gq_enabled \in enabled
    /\ gq_started = FALSE
    /\ tags_data = EmptyMap

\* what is published to the sinks called directly
GateTag == "T"
GateValue == Num(31)
GatePyValue == PyInt(7)

\* the REST sink constructed with either enabled flag, the other sinks of the
\* dispatcher enabled
RestEnabledAtInit ==
    {e \in [OtherSinks -> BOOLEAN] : e["OPCUAClient"] /\ e["Prometheus"]}

(***************************************************************************)
(* C19: publish on a sink whose enabled flag is false changes nothing and  *)
(* sends nothing: the REST tag cache, the Modbus allocation map, counter   *)
(* and registers, the alarm active set, history and last-notification      *)
(* times, and the SQLite write buffer and table keep their values; so they *)
(* do after any sequence of such calls.                                    *)
(***************************************************************************)
C19_DisabledSinkUnchanged ==
    /\ ~pub_enabled["RESTAPI"] =>
          \A tag_name \in MgrTags, value \in MgrValues, timestamp \in Timestamps :
              RestPublish(tag_cache, tag_name, value, timestamp) = tag_cache
    /\ ~mb_enabled =>
          \A tag_name \in MbTags, value \in MbValues :
              MbPublishResult(tag_name, value)
                  = [map |-> tag_register_map, next |-> next_register,
                     registers |-> holding_registers, allocated |-> mb_allocated]
    /\ ~al_enabled =>
          \A tag_name \in Tags, value \in Values, timestamp \in Timestamps :
              LET r == PublishResult(tag_name, value, timestamp)
              IN r.st = CurrentAlarmState /\ r.steps = << >> /\ ~r.raised
    /\ ~sq_enabled =>
          \A tag_name \in MgrTags, value \in MbValues :
              SqPublishResult(tag_name, value, "int") = SqState(write_buffer, sq_rows)

\* every sink of the claim is disabled, the Modbus sink holding an allocation
\* and the SQLite sink a buffered row; each publish is a step that stays here
C19_Witness ==
    /\ ~pub_enabled["RESTAPI"]
    /\ ~mb_enabled /\ tag_register_map # EmptyMap
    /\ ~al_enabled
    /\ ~sq_enabled /\ write_buffer # << >>

(***************************************************************************)
(* C20 (as claimed): for every sink, a publish call made before start()    *)
(* or after stop() changes no state of the sink.                           *)
(***************************************************************************)
C20_NotStartedSinkUnchanged ==
    [][/\ (RestPublishCall(GateTag, GateValue, NoTs) /\ ~pub_running["RESTAPI"])
             => tag_cache' = tag_cache
       /\ (GqPublish(GateTag, GateValue, NoTs) /\ ~gq_started)
             => tags_data' = tags_data
       /\ (SqPublish(GateTag, GatePyValue, "int") /\ ~sq_connected)
             => write_buffer' = write_buffer
       /\ (MbPublish("X", GatePyValue) /\ ~mb_running)
             => UNCHANGED <<tag_register_map, next_register, holding_registers>>
       /\ (AlarmPublish(GateTag, GateValue, NoTs) /\ ~al_running)
             => UNCHANGED <<active_alarms, alarm_history, last_notification>>]_vars

(***************************************************************************)
(* C33 (as claimed): alarm state is independent per (rule name, tag name)  *)
(* pair: an update for one pair never creates, updates, clears or          *)
(* debounces the alarm of a different pair, for any rule and tag names,    *)
(* including names that contain '_'.  Evaluating a rule on an update of    *)
(* its tag leaves every active record of another pair as it was, and       *)
(* raises the pair's alarm when the condition holds and the pair itself    *)
(* has no active record and was never notified.                            *)
(***************************************************************************)
C33_PairsAreIndependent ==
    \A i \in DOMAIN parsed_rules, value \in Values, timestamp \in Timestamps :
        LET rule == parsed_rules[i]
            pair == <<rule.name, rule.tag>>
            PairOf(alarm) == <<alarm.rule_name, alarm.tag>>
            after == EvaluateRule(CurrentAlarmState, rule, rule.tag, value,
                                  timestamp).st
        IN /\ \A k \in DOMAIN active_alarms :
                 PairOf(active_alarms[k]) # pair
                    => k \in DOMAIN after.active /\ after.active[k] = active_alarms[k]
           /\ ( /\ EvaluateCondition(value, rule.condition, rule.threshold)
                /\ \A k \in DOMAIN active_alarms : PairOf(active_alarms[k]) # pair
                /\ pair \notin DOMAIN g_notified )
                 => \E k \in DOMAIN after.active :
                       /\ PairOf(after.active[k]) = pair
                       /\ after.active[k].triggered_value = value

(***************************************************************************)
(* C30 (as claimed): the time recorded for an update (alarm triggered_at,  *)
(* last_update and cleared_at, the debounce last-notification stamp, the   *)
(* REST cache timestamp) equals the timestamp supplied by the caller       *)
(* whenever one is supplied, including the value 0, and is the call time   *)
(* only when the timestamp is omitted.                                     *)
(***************************************************************************)
C30_RecordedTimeIsUpdateTime ==
    \A tag_name \in Tags, value \in Values, timestamp \in Timestamps :
        /\ \A i \in DOMAIN parsed_rules :
              LET rule == parsed_rules[i]
                  rule_key == RuleKey(rule.name, tag_name)
                  raised == TriggerAlarm(CurrentAlarmState, rule, tag_name, value,
                                         timestamp).st
                  raised_now == rule_key \in DOMAIN raised.active
                                /\ raised.lastn # last_notification
              IN /\ raised_now =>
                       /\ raised.active[rule_key].triggered_at = UpdTime(timestamp)
                       /\ raised.active[rule_key].last_update = UpdTime(timestamp)
                       /\ raised.lastn[rule_key] = UpdTime(timestamp)
                 /\ rule_key \in DOMAIN active_alarms =>
                       LET cleared == ClearAlarm(CurrentAlarmState, rule, tag_name,
                                                 value, timestamp).st.history
                       IN cleared[Len(cleared)].cleared_at = UpdTime(timestamp)
        /\ RestPublish(tag_cache, tag_name, value, timestamp)[tag_name].timestamp
              = UpdTime(timestamp)

(***************************************************************************)
(* AlarmsPublisher.publish under updates whose timestamps increase, up to  *)
(* the point where the condition of one rule holds on every update of its  *)
(* tag, and from there on.                                                 *)
(***************************************************************************)
\* the updates made before that point carry a timestamp of at most MaxTime;
\* the later ones go on for longer than the debounce_seconds of any rule
LastTime == MaxTime + 2

InitRetrigger ==
    /\ rt_rule = 0
    /\ rt_time = -1

notRetrigVars == <<mgrVars, clock, faultVars, mbVars, cdVars, sqVars, gqVars, lifeVars,
                   ordVars, allocVars, raceVars, lockVars, auditVars, flushVars,
                   reconnVars>>

\* AlarmsPublisher.publish(tag_name, value, timestamp), a later timestamp
\* than that of the update before
RtApply(tag_name, value, timestamp) ==
    LET r == PublishResult(tag_name, value, timestamp)
    IN /\ timestamp > rt_time
       /\ active_alarms' = r.st.active
       /\ alarm_history' = r.st.history
       /\ last_notification' = r.st.lastn
       /\ g_notified' = r.st.notified
       /\ rt_time' = timestamp
       /\ UNCHANGED <<al_enabled, al_running, parsed_rules, rt_rule, notRetrigVars>>

\* AlarmsPublisher.start
RtStart ==
    /\ ~al_running
    /\ al_running' = IF al_enabled THEN TRUE ELSE al_running
    /\ UNCHANGED <<al_enabled, parsed_rules, active_alarms, alarm_history,
                   last_notification, g_notified, retrigVars, notRetrigVars>>

\* an update of any tag with any value
RtPublish(tag_name, value, timestamp) ==
    /\ rt_rule = 0
    /\ timestamp <= MaxTime
    /\ RtApply(tag_name, value, timestamp)

\* from here on the condition of rule i holds on every update of its tag
RtSettle(i) ==
    /\ rt_rule = 0
    /\ al_running
    /\ rt_rule' = i
    /\ UNCHANGED <<alarmVars, rt_time, notRetrigVars>>

\* an update of the rule's tag: its value meets the rule's condition
RtRetrigger(value, timestamp) ==
    /\ rt_rule # 0
    /\ timestamp <= LastTime
    /\ EvaluateCondition(value, parsed_rules[rt_rule].condition,
                         parsed_rules[rt_rule].threshold)
    /\ RtApply(parsed_rules[rt_rule].tag, value, timestamp)

\* an update of another tag in between
RtOther(tag_name, value, timestamp) ==
    /\ rt_rule # 0
    /\ tag_name # parsed_rules[rt_rule].tag
    /\ timestamp < LastTime
    /\ RtApply(tag_name, value, timestamp)

\* the updates of the rule's tag keep arriving
RtArrive ==
    \E value \in Values, timestamp \in 0..LastTime : RtRetrigger(value, timestamp)

ConnectingSinks == <<"MQTT", "InfluxDB", "OPCUAClient", "SQLitePersistence">>

ListedSinks == <<"OPCUAClient", "RESTAPI", "SQLitePersistence">>

LifeSinks == lc_publishers

LifeSet == {LifeSinks[i] : i \in DOMAIN LifeSinks}

\* what the connection a start() makes does: it is made, or it cannot be made
StartOutcomes == {"ok", "failed"}

\* the sinks whose constructor returns early when their library is missing
Optional == {"InfluxDB"}

\* publisher.start() of sink s with the flags enabled, running. status:
\* "skipped" the method returned at its first test, "ok", "failed" the method
\* caught the failure, "raised" the failure left the method
SinkStart(s, enabled, running, outcome) ==
    CASE s \in {"MQTT", "RESTAPI"} ->
            IF ~enabled
            THEN [enabled |-> enabled, running |-> running, status |-> "skipped"]
            ELSE [enabled |-> enabled, running |-> outcome = "ok",
                  status |-> outcome]
      [] s = "InfluxDB" ->
            IF ~enabled \/ s \in lc_missing
            THEN [enabled |-> enabled, running |-> running, status |-> "skipped"]
            ELSE IF outcome = "ok"
                 THEN [enabled |-> enabled, running |-> TRUE, status |-> "ok"]
                 ELSE [enabled |-> FALSE, running |-> running, status |-> "failed"]
      [] s = "OPCUAClient" ->
            IF ~enabled
            THEN [enabled |-> enabled, running |-> running, status |-> "skipped"]
            ELSE [enabled |-> enabled, running |-> TRUE,
                  status |-> IF outcome = "ok" THEN "ok" ELSE "raised"]
      [] s = "SQLitePersistence" ->
            [enabled |-> outcome = "ok", running |-> running, status |-> outcome]

\* publisher.stop() of sink s; raised: AttributeError, the constructor returned
\* before it set the attribute that stop() reads
SinkStop(s, enabled, running) ==
    CASE s \in {"MQTT", "RESTAPI"} ->
            [enabled |-> enabled, running |-> FALSE, raised |-> FALSE]
      [] s = "InfluxDB" ->
            IF s \in lc_missing
            THEN [enabled |-> enabled, running |-> running, raised |-> TRUE]
            ELSE [enabled |-> enabled, running |-> FALSE, raised |-> FALSE]
      [] s = "OPCUAClient" ->
            [enabled |-> enabled, running |-> IF enabled THEN FALSE ELSE running,
             raised |-> FALSE]
      [] s = "SQLitePersistence" ->
            [enabled |-> FALSE, running |-> running, raised |-> FALSE]

\* the outcome of the last start() in the phase history
PhaseOf(status, phase) ==
    CASE status = "skipped" -> phase
      [] status = "ok" -> "ok"
      [] OTHER -> "failed"

\* PublisherManager.get_publisher_statuses over these sinks
LifeStatuses ==
    [i \in DOMAIN LifeSinks |->
        [name |-> FriendlyName(LifeSinks[i]), enabled |-> lc_enabled[LifeSinks[i]],
         class |-> LifeSinks[i] \o "Publisher"]]

\* the names handed to toggle_publisher: the friendly names, a class name
\* that is not a friendly name, and a name of no sink
ToggleNames == {FriendlyName(s) : s \in LifeSet} \cup {"OPCUAClient", "REST API"}

\* what a toggle_publisher call that matched no sink leaves
NoToggle ==
    [enabled |-> lc_enabled, running |-> lc_running, ret |-> FALSE,
     sink |-> "none", called |-> "none", status |-> "none"]

RECURSIVE ToggleLoop(_, _, _)

\* PublisherManager.toggle_publisher from publisher i of self.publishers on
ToggleLoop(i, publisher_name, outcome) ==
    IF i > Len(LifeSinks) THEN NoToggle
    ELSE LET s == LifeSinks[i]
         IN IF FriendlyName(s) # publisher_name
            THEN ToggleLoop(i + 1, publisher_name, outcome)
            ELSE IF ~lc_enabled[s]
                 THEN LET r == SinkStart(s, TRUE, lc_running[s], outcome)
                      IN [enabled |-> [lc_enabled EXCEPT ![s] =
                                         IF r.status = "raised" THEN FALSE
                                         ELSE r.enabled],
                          running |-> [lc_running EXCEPT ![s] = r.running],
                          ret |-> r.status # "raised",
                          sink |-> s, called |-> "start", status |-> r.status]
                 ELSE LET r == SinkStop(s, FALSE, lc_running[s])
                      IN [enabled |-> [lc_enabled EXCEPT ![s] = r.enabled],
                          running |-> [lc_running EXCEPT ![s] = r.running],
                          ret |-> TRUE,
                          sink |-> s, called |-> "stop",
                          status |-> IF r.raised THEN "raised" ELSE "ok"]

\* toggle_publisher that calls start() or stop() and leaves the flag as it was
TogglePublisherResult_KeepsFlag(publisher_name, outcome) ==
    [ToggleLoop(1, publisher_name, outcome) EXCEPT !.enabled = lc_enabled]

\* PublisherManager.toggle_publisher(publisher_name)
TogglePublisherResult(publisher_name, outcome) ==
    ToggleLoop(1, publisher_name, outcome)

\* initialize_publishers: every sink of the configuration has "enabled": true;
\* a sink whose library is missing disables itself
InitLife(publishers, missing) ==
    /\ lc_publishers = publishers
    /\ lc_missing \in missing
    /\ lc_enabled = [s \in LifeSet |-> s \notin lc_missing]
    /\ lc_running = [s \in LifeSet |-> FALSE]
    /\ lc_phase = [s \in LifeSet |-> "new"]
    /\ lc_failed = {}
    /\ lc_last = [name |-> "none", ret |-> FALSE, called |-> "none", status |-> "none"]
    /\ lc_statuses = << >>

IdleLife == InitLife(ConnectingSinks, {{}})

notLifeVars == <<alarmVars, mgrVars, clock, faultVars, mbVars, cdVars, sqVars, gqVars,
                 ordVars, allocVars, raceVars, lockVars, lateVars>>

\* PublisherManager.start_all; outcomes: what each sink's connection does
LifeStartAll(outcomes) ==
    LET r == [s \in LifeSet |-> SinkStart(s, lc_enabled[s], lc_running[s], outcomes[s])]
    IN /\ lc_enabled' = [s \in LifeSet |-> r[s].enabled]
       /\ lc_running' = [s \in LifeSet |-> r[s].running]
       /\ lc_phase' = [s \in LifeSet |-> PhaseOf(r[s].status, lc_phase[s])]
       /\ lc_failed' = lc_failed \cup {s \in LifeSet : r[s].status \in {"failed", "raised"}}
       /\ lc_statuses' = IF "RESTAPI" \in LifeSet
                         THEN [i \in DOMAIN LifeSinks |->
                                 [LifeStatuses[i] EXCEPT
                                     !.enabled = r[LifeSinks[i]].enabled]]
                         ELSE lc_statuses
       /\ UNCHANGED <<lc_missing, lc_last, lc_publishers, notLifeVars>>

\* PublisherManager.stop_all
LifeStopAll ==
    LET r == [s \in LifeSet |-> SinkStop(s, lc_enabled[s], lc_running[s])]
    IN /\ lc_enabled' = [s \in LifeSet |-> r[s].enabled]
       /\ lc_running' = [s \in LifeSet |-> r[s].running]
       /\ lc_phase' = [s \in LifeSet |-> IF lc_phase[s] = "ok" /\ ~r[s].raised
                                         THEN "off" ELSE lc_phase[s]]
       /\ UNCHANGED <<lc_missing, lc_failed, lc_last, lc_statuses, lc_publishers,
                    notLifeVars>>

\* PublisherManager.toggle_publisher
TogglePublisher(publisher_name, outcome) ==
    LET r == TogglePublisherResult(publisher_name, outcome)
    IN /\ lc_enabled' = r.enabled
       /\ lc_running' = r.running
       /\ lc_phase' = IF r.sink = "none" THEN lc_phase
                      ELSE [lc_phase EXCEPT ![r.sink] =
                              IF r.called = "start" /\ r.status # "skipped"
                              THEN PhaseOf(r.status, @) ELSE "off"]
       /\ lc_failed' = IF r.called = "start" /\ r.status \in {"failed", "raised"}
                       THEN lc_failed \cup {r.sink}
                       ELSE lc_failed \ {r.sink}
       /\ lc_last' = [name |-> publisher_name, ret |-> r.ret, called |-> r.called,
                      status |-> r.status]
       /\ UNCHANGED <<lc_missing, lc_statuses, lc_publishers, notLifeVars>>

(***************************************************************************)
(* PublisherManager life cycle: vocabulary of the properties.              *)
(***************************************************************************)
\* the registered sinks that toggle_publisher(publisher_name) names
Registered(publisher_name) == {s \in LifeSet : FriendlyName(s) = publisher_name}

\* a start() that could not do what it is for
StartFailed(status) == status \in {"failed", "raised"}

C23_FailedStartRevertsToggle ==
    \A s \in LifeSet, outcome \in StartOutcomes :
        LET r == TogglePublisherResult(FriendlyName(s), outcome)
        IN (r.called = "start" /\ StartFailed(r.status))
              => ~r.enabled[s] /\ r.ret = FALSE

(***************************************************************************)
(* C24 (as claimed): after start() fails for a sink, in start_all or in a  *)
(* toggle, get_publisher_statuses reports the sink as not enabled, and it  *)
(* stays not enabled until toggle_publisher is called for it.              *)
(***************************************************************************)
C24_FailedStartDisables ==
    \A i \in DOMAIN LifeSinks :
        LifeSinks[i] \in lc_failed => ~LifeStatuses[i].enabled

(***************************************************************************)
(* C31 (as claimed): after any sequence of toggle_publisher calls, the     *)
(* sink list exposed to operators, get_publisher_statuses() and the        *)
(* /api/publishers listing that start_all installs on the REST sink,       *)
(* reports for every registered sink its current enabled flag: after a     *)
(* toggle_publisher call both report the flag the call left on the sink    *)
(* it names.                                                               *)
(***************************************************************************)
C31_ListingShowsToggledFlag ==
    [][\A publisher_name \in ToggleNames, outcome \in StartOutcomes :
          (TogglePublisher(publisher_name, outcome) /\ lc_statuses' # << >>)
             => \A i \in DOMAIN LifeSinks :
                   FriendlyName(LifeSinks[i]) = publisher_name
                      => /\ LifeStatuses'[i].enabled = lc_enabled'[LifeSinks[i]]
                         /\ lc_statuses'[i].enabled = lc_enabled'[LifeSinks[i]]
      ]_vars

(***************************************************************************)
(* C29 (as claimed): stop() on a sink whose start() was never called, or   *)
(* failed part-way, returns without raising and leaves the sink not        *)
(* running; stop_all calls stop on every sink.                             *)
(***************************************************************************)
C29_StopIsSafeBeforeStart ==
    \A s \in LifeSet :
        lc_phase[s] \in {"new", "failed"} =>
            LET r == SinkStop(s, lc_enabled[s], lc_running[s])
            IN ~r.raised /\ ~r.running

(***************************************************************************)
(* PublisherManager over a caching sink (RESTAPIPublisher) and a buffering *)
(* sink (SQLitePersistencePublisher), with one caller.                     *)
(***************************************************************************)
\* the most publish_to_all calls of a behaviour
MaxCalls == 3

\* the values the caller publishes
OrdValues == {PyInt(7), PyInt(8)}

InitOrder == od_calls = << >>

\* PublisherManager.publish_to_all with self.publishers = [RESTAPIPublisher,
\* SQLitePersistencePublisher]: publisher.publish(tag_name, value, timestamp)
\* hands the timestamp to the SQLite sink as its third parameter, data_type
PublishToBoth(tag_name, value, timestamp) ==
    LET st == SqPublishResult(tag_name, value, timestamp)
    IN /\ Len(od_calls) < MaxCalls
       /\ tag_cache' = RestPublish(tag_cache, tag_name, value, timestamp)
       /\ write_buffer' = st.buffer
       /\ sq_rows' = st.rows
       /\ od_calls' = Append(od_calls, [tag_name |-> tag_name, value |-> value,
                                        cached |-> pub_enabled["RESTAPI"],
                                        stored |-> sq_enabled])
       /\ UNCHANGED <<alarmVars, pub_enabled, pub_running, rest_statuses, prom_messages,
                      prom_errors, prom_gauges, g_calls, g_raised, g_outcome, clock,
                      faultVars, mbVars, cdVars, sq_enabled, sq_connected, gqVars,
                      lifeVars, allocVars, raceVars, lockVars, lateVars>>

\* the calls of a call sequence that name the tag
CallsFor(calls, tag_name) ==
    LET Names(c) == c.tag_name = tag_name IN SelectSeq(calls, Names)

\* the calls of a call sequence that the buffering sink took
CallsStored(calls) ==
    LET Stored(c) == c.stored IN SelectSeq(calls, Stored)

\* the tag and the stored text of each record of a sequence of calls or rows
TagsAndTexts(calls) ==
    [i \in DOMAIN calls |-> <<calls[i].tag_name, StrOf(calls[i].value)>>]

TagsAndValues(rows) ==
    [i \in DOMAIN rows |-> <<rows[i].tag_name, rows[i].value>>]

Threads == {1, 2}

\* the tag a thread allocates
ThreadTag(t) == IF t = 1 THEN "S" ELSE "X"

InitAllocThreads ==
    /\ ar_pc = [t \in Threads |-> "idle"]
    /\ ar_type = [t \in Threads |-> "int"]
    /\ ar_start = [t \in Threads |-> -1]
    /\ ar_loaded = [t \in Threads |-> -1]

notAllocVars == <<mb_enabled, mb_running, register_mapping, holding_registers,
                  mb_allocated, alarmVars, mgrVars, clock, faultVars, cdVars, sqVars,
                  gqVars, lifeVars, ordVars, raceVars, lockVars, lateVars>>

\* the thread enters allocate_registers(ThreadTag(t), tag_type)
AllocCall(t, tag_type) ==
    /\ ar_pc[t] = "idle"
    /\ ar_pc' = [ar_pc EXCEPT ![t] = "test"]
    /\ ar_type' = [ar_type EXCEPT ![t] = tag_type]
    /\ UNCHANGED <<ar_start, ar_loaded, tag_register_map, next_register, notAllocVars>>

\* if tag_name in self.tag_register_map: return its start_register
AllocTest(t) ==
    /\ ar_pc[t] = "test"
    /\ IF ThreadTag(t) \in DOMAIN tag_register_map
       THEN /\ ar_pc' = [ar_pc EXCEPT ![t] = "done"]
            /\ ar_start' = [ar_start EXCEPT ![t] =
                               tag_register_map[ThreadTag(t)].start_register]
       ELSE /\ ar_pc' = [ar_pc EXCEPT ![t] = "read"]
            /\ UNCHANGED ar_start
    /\ UNCHANGED <<ar_type, ar_loaded, tag_register_map, next_register, notAllocVars>>

\* start_register = self.next_register
AllocRead(t) ==
    /\ ar_pc[t] = "read"
    /\ ar_start' = [ar_start EXCEPT ![t] = next_register]
    /\ ar_pc' = [ar_pc EXCEPT ![t] = "store"]
    /\ UNCHANGED <<ar_type, ar_loaded, tag_register_map, next_register, notAllocVars>>

\* self.tag_register_map[tag_name] = {...}
AllocStore(t) ==
    /\ ar_pc[t] = "store"
    /\ tag_register_map' = Put(tag_register_map, ThreadTag(t),
                               MapEntry(ar_start[t], NumRegisters(ar_type[t]), ar_type[t]))
    /\ ar_pc' = [ar_pc EXCEPT ![t] = "load"]
    /\ UNCHANGED <<ar_type, ar_start, ar_loaded, next_register, notAllocVars>>

\* self.next_register += num_registers: the read of the attribute
AllocLoad(t) ==
    /\ ar_pc[t] = "load"
    /\ ar_loaded' = [ar_loaded EXCEPT ![t] = next_register]
    /\ ar_pc' = [ar_pc EXCEPT ![t] = "add"]
    /\ UNCHANGED <<ar_type, ar_start, tag_register_map, next_register, notAllocVars>>

\* self.next_register += num_registers: the write of the sum; return start_register
AllocAdd(t) ==
    /\ ar_pc[t] = "add"
    /\ next_register' = ar_loaded[t] + NumRegisters(ar_type[t])
    /\ ar_pc' = [ar_pc EXCEPT ![t] = "done"]
    /\ UNCHANGED <<ar_type, ar_start, ar_loaded, tag_register_map, notAllocVars>>

(***************************************************************************)
(* C26 (as claimed): when two threads call allocate_registers concurrently *)
(* for two different tags, the two resulting ranges never overlap and the  *)
(* next-free counter ends advanced by the sum of both lengths.             *)
(***************************************************************************)
C26_ConcurrentAllocationsAreSerial ==
    (\A t \in Threads : ar_pc[t] = "done") =>
        /\ RegisterRange(tag_register_map[ThreadTag(1)])
              \cap RegisterRange(tag_register_map[ThreadTag(2)]) = {}
        /\ next_register = NumRegisters(ar_type[1]) + NumRegisters(ar_type[2])

(***************************************************************************)
(* AlarmsPublisher.publish called by two threads for the same rule and     *)
(* tag. The class takes no lock; a thread switch can fall between any two  *)
(* statements of publish, _trigger_alarm and _clear_alarm.                 *)
(***************************************************************************)
\* the rule both threads evaluate: auto_clear, debounce_seconds 1, with a
\* "clear" channel
RaceRule == RulesPlain[1]

\* the pair is Active at the start (active) or Inactive
InitAlarmThreads(active) ==
    /\ ra_pc = [t \in Threads |-> "idle"]
    /\ ra_active \in active
    /\ ra_met = [t \in Threads |-> ~ra_active]
    /\ ra_last = NoTime
    /\ ra_created = 0
    /\ ra_history = << >>
    /\ ra_sent = << >>
    /\ ra_raised = {}

notRaceVars == <<alarmVars, mgrVars, clock, faultVars, mbVars, cdVars, sqVars, gqVars,
                 lifeVars, ordVars, allocVars, lockVars, lateVars>>

\* the thread moves to statement pc
RaceGoto(t, pc) == ra_pc' = [ra_pc EXCEPT ![t] = pc]

\* KeyError leaves publish, which has no try block
RaceRaise(t) ==
    /\ RaceGoto(t, "raised")
    /\ ra_raised' = ra_raised \cup {t}

\* the thread enters publish(tag_name, value) and evaluates the condition
RacePublish(t) ==
    /\ ra_pc[t] = "idle"
    /\ RaceGoto(t, "test")
    /\ UNCHANGED <<ra_met, ra_active, ra_last, ra_created, ra_history, ra_sent,
                   ra_raised, notRaceVars>>

\* if triggered: if rule_key not in self.active_alarms ... else: if rule_key
\* in self.active_alarms and rule["auto_clear"]
RaceTest(t) ==
    /\ ra_pc[t] = "test"
    /\ RaceGoto(t, IF ra_met[t]
                   THEN (IF ~ra_active THEN "debounce" ELSE "update")
                   ELSE (IF ra_active /\ RaceRule.auto_clear THEN "get" ELSE "done"))
    /\ UNCHANGED <<ra_met, ra_active, ra_last, ra_created, ra_history, ra_sent,
                   ra_raised, notRaceVars>>

\* self.active_alarms[rule_key]["last_value"] = value
RaceUpdate(t) ==
    /\ ra_pc[t] = "update"
    /\ IF ra_active THEN RaceGoto(t, "done") /\ UNCHANGED ra_raised
       ELSE RaceRaise(t)
    /\ UNCHANGED <<ra_met, ra_active, ra_last, ra_created, ra_history, ra_sent,
                   notRaceVars>>

\* _trigger_alarm: the debounce test
RaceDebounce(t) ==
    /\ ra_pc[t] = "debounce"
    /\ RaceGoto(t, IF ra_last # NoTime /\ clock - ra_last < RaceRule.debounce_seconds
                   THEN "done" ELSE "create")
    /\ UNCHANGED <<ra_met, ra_active, ra_last, ra_created, ra_history, ra_sent,
                   ra_raised, notRaceVars>>

\* self.active_alarms[rule_key] = alarm
RaceCreate(t) ==
    /\ ra_pc[t] = "create"
    /\ ra_active' = TRUE
    /\ ra_created' = ra_created + 1
    /\ RaceGoto(t, "append")
    /\ UNCHANGED <<ra_met, ra_last, ra_history, ra_sent, ra_raised, notRaceVars>>

\* self.alarm_history.append(alarm.copy()), in _trigger_alarm
RaceAppend(t) ==
    /\ ra_pc[t] = "append"
    /\ ra_history' = Append(ra_history, "ACTIVE")
    /\ RaceGoto(t, "notify")
    /\ UNCHANGED <<ra_met, ra_active, ra_last, ra_created, ra_sent, ra_raised,
                   notRaceVars>>

\* self._send_notifications(alarm, rule["channels"]): one notification on
\* each channel of the rule
RaceNotify(t) ==
    /\ ra_pc[t] = "notify"
    /\ ra_sent' = Append(ra_sent, "ACTIVE")
    /\ RaceGoto(t, "stamp")
    /\ UNCHANGED <<ra_met, ra_active, ra_last, ra_created, ra_history, ra_raised,
                   notRaceVars>>

\* self.last_notification[rule_key] = now
RaceStamp(t) ==
    /\ ra_pc[t] = "stamp"
    /\ ra_last' = clock
    /\ RaceGoto(t, "done")
    /\ UNCHANGED <<ra_met, ra_active, ra_created, ra_history, ra_sent, ra_raised,
                   notRaceVars>>

\* _clear_alarm: alarm = self.active_alarms[rule_key], and the three
\* assignments to the record
RaceGet(t) ==
    /\ ra_pc[t] = "get"
    /\ IF ra_active THEN RaceGoto(t, "record") /\ UNCHANGED ra_raised
       ELSE RaceRaise(t)
    /\ UNCHANGED <<ra_met, ra_active, ra_last, ra_created, ra_history, ra_sent,
                   notRaceVars>>

\* self.alarm_history.append(alarm.copy()), in _clear_alarm
RaceRecord(t) ==
    /\ ra_pc[t] = "record"
    /\ ra_history' = Append(ra_history, "CLEARED")
    /\ RaceGoto(t, "del")
    /\ UNCHANGED <<ra_met, ra_active, ra_last, ra_created, ra_sent, ra_raised,
                   notRaceVars>>

\* del self.active_alarms[rule_key]
RaceDel(t) ==
    /\ ra_pc[t] = "del"
    /\ IF ra_active
       THEN /\ ra_active' = FALSE
            /\ RaceGoto(t, "cleared")
            /\ UNCHANGED ra_raised
       ELSE /\ RaceRaise(t)
            /\ UNCHANGED ra_active
    /\ UNCHANGED <<ra_met, ra_last, ra_created, ra_history, ra_sent, notRaceVars>>

\* if "clear" in rule.get("channels", []): self._send_notifications(...)
RaceCleared(t) ==
    /\ ra_pc[t] = "cleared"
    /\ ra_sent' = IF \E i \in DOMAIN RaceRule.channels : RaceRule.channels[i] = "clear"
                  THEN Append(ra_sent, "CLEARED") ELSE ra_sent
    /\ RaceGoto(t, "done")
    /\ UNCHANGED <<ra_met, ra_active, ra_last, ra_created, ra_history, ra_raised,
                   notRaceVars>>

\* the number of entries of a sequence that equal x
CountOf(seq, x) == Cardinality({i \in DOMAIN seq : seq[i] = x})

\* both publish calls have ended
RaceOver == \A t \in Threads : ra_pc[t] \in {"done", "raised"}

(***************************************************************************)
(* C27 (as claimed): when two threads concurrently publish condition-true  *)
(* updates for the same Inactive pair, exactly one alarm is created, one   *)
(* history record is appended and one notification per channel is sent;    *)
(* when two threads concurrently publish condition-false updates for the   *)
(* same Active auto-clear pair, it is cleared exactly once and neither     *)
(* publish raises.                                                         *)
(***************************************************************************)
C27_ConcurrentPublishActsOnce ==
    RaceOver =>
        /\ (\A t \in Threads : ra_met[t]) =>
                /\ ra_created = 1
                /\ CountOf(ra_history, "ACTIVE") = 1
                /\ CountOf(ra_sent, "ACTIVE") = 1
        /\ (\A t \in Threads : ~ra_met[t]) =>
                /\ CountOf(ra_history, "CLEARED") = 1
                /\ CountOf(ra_sent, "CLEARED") = 1
                /\ ra_raised = {}

(***************************************************************************)
(* SQLitePersistencePublisher with enable_audit_log: start() and           *)
(* cleanup_old_data() run by two threads. self.db_lock is a                *)
(* threading.Lock: "with self.db_lock" waits until the lock is free, also  *)
(* when the waiting thread is the one that holds it.                       *)
(***************************************************************************)
\* threading.Lock(), unlocked
Free == 0

InitLock ==
    /\ db_lock = Free
    /\ audit_buffer = 0
    /\ audit_rows = 0
    /\ cl_op = [t \in Threads |-> "none"]
    /\ cl_pc = [t \in Threads |-> "idle"]

notLockVars == <<alarmVars, mgrVars, clock, faultVars, mbVars, cdVars, write_buffer,
                 sq_rows, gqVars, lifeVars, ordVars, allocVars, raceVars, lateVars>>

\* the thread moves to statement pc
LockGoto(t, pc) == cl_pc' = [cl_pc EXCEPT ![t] = pc]

\* the method returns
LockReturn(t) ==
    /\ cl_pc' = [cl_pc EXCEPT ![t] = "idle"]
    /\ cl_op' = [cl_op EXCEPT ![t] = "none"]

\* the thread enters start() or cleanup_old_data(); cleanup_old_data returns
\* at once when the sink is not enabled
LockCall(t, op) ==
    /\ cl_pc[t] = "idle"
    /\ audit_buffer + audit_rows < SqCap
    /\ IF op = "cleanup" /\ ~sq_enabled
       THEN UNCHANGED <<cl_op, cl_pc>>
       ELSE /\ cl_op' = [cl_op EXCEPT ![t] = op]
            /\ LockGoto(t, "with")
    /\ UNCHANGED <<db_lock, audit_buffer, audit_rows, sq_enabled, sq_connected,
                   notLockVars>>

\* with self.db_lock: in _init_database, in cleanup_old_data and in
\* _flush_audit_log
LockAcquire(t) ==
    /\ cl_pc[t] \in {"with", "flush"}
    /\ db_lock = Free
    /\ db_lock' = t
    /\ LockGoto(t, IF cl_pc[t] = "flush" THEN "insert"
                   ELSE IF cl_op[t] = "start" THEN "init" ELSE "delete")
    /\ UNCHANGED <<cl_op, audit_buffer, audit_rows, sq_enabled, sq_connected,
                   notLockVars>>

\* start(): the body of _init_database, the end of its with block, then
\* self.enabled = True
LockInit(t) ==
    /\ cl_pc[t] = "init"
    /\ db_lock' = Free
    /\ sq_connected' = TRUE
    /\ sq_enabled' = TRUE
    /\ LockGoto(t, "audit")
    /\ UNCHANGED <<cl_op, audit_buffer, audit_rows, notLockVars>>

\* cleanup_old_data: the DELETE statements, commit and VACUUM inside the with
\* block; with no connection self.connection.cursor() raises, the with block
\* releases the lock and the except branch logs
LockDelete(t) ==
    /\ cl_pc[t] = "delete"
    /\ IF sq_connected
       THEN /\ LockGoto(t, "audit")
            /\ UNCHANGED <<db_lock, cl_op>>
       ELSE /\ db_lock' = Free
            /\ LockReturn(t)
    /\ UNCHANGED <<audit_buffer, audit_rows, sq_enabled, sq_connected, notLockVars>>

\* _log_audit_event: the append and the test of the buffer length; in
\* cleanup_old_data the call stands inside the with block
LockAudit(t) ==
    /\ cl_pc[t] = "audit"
    /\ IF ~sq_enabled \/ ~enable_audit_log
       THEN /\ LockGoto(t, "logged")
            /\ UNCHANGED audit_buffer
       ELSE /\ audit_buffer' = audit_buffer + 1
            /\ LockGoto(t, IF audit_buffer + 1 >= BatchSize THEN "flush" ELSE "logged")
    /\ UNCHANGED <<db_lock, cl_op, audit_rows, sq_enabled, sq_connected, notLockVars>>

\* _flush_audit_log: executemany, commit, clear, and the end of its with block
LockInsert(t) ==
    /\ cl_pc[t] = "insert"
    /\ IF sq_connected
       THEN /\ audit_rows' = audit_rows + audit_buffer
            /\ audit_buffer' = 0
       ELSE UNCHANGED <<audit_rows, audit_buffer>>
    /\ db_lock' = Free
    /\ LockGoto(t, "logged")
    /\ UNCHANGED <<cl_op, sq_enabled, sq_connected, notLockVars>>

\* _log_audit_event has returned: start() returns; cleanup_old_data leaves
\* its with block, which releases the lock, and returns
LockLogged(t) ==
    /\ cl_pc[t] = "logged"
    /\ db_lock' = IF cl_op[t] = "cleanup" THEN Free ELSE db_lock
    /\ LockReturn(t)
    /\ UNCHANGED <<audit_buffer, audit_rows, sq_enabled, sq_connected, notLockVars>>

\* one step of thread t
LockStep(t) ==
    \/ \E op \in {"start", "cleanup"} : LockCall(t, op)
    \/ LockAcquire(t)
    \/ LockInit(t)
    \/ LockDelete(t)
    \/ LockAudit(t)
    \/ LockInsert(t)
    \/ LockLogged(t)

(***************************************************************************)
(* C28 (as claimed): cleanup_old_data, which logs an audit event while it  *)
(* holds the database lock, always returns and releases the lock, also     *)
(* when that audit event brings the audit buffer to batch_size and so      *)
(* triggers a flush.                                                       *)
(***************************************************************************)
C28_CleanupReturns ==
    \A t \in Threads :
        (cl_op[t] = "cleanup") ~> (cl_op[t] = "none" /\ db_lock # t)

(***************************************************************************)
(* SQLitePersistencePublisher.publish called from two threads: the append  *)
(* to write_buffer is made outside db_lock, the flush inside it.           *)
(***************************************************************************)
InitFlushThreads ==
    /\ fl_pc = [t \in Threads |-> "idle"]
    /\ fl_accepted = << >>

notFlushVars == <<alarmVars, mgrVars, clock, faultVars, mbVars, cdVars, sq_enabled,
                  sq_connected, gqVars, lifeVars, ordVars, allocVars, raceVars,
                  audit_buffer, audit_rows, cl_op, cl_pc, retrigVars, auditVars,
                  reconnVars>>

\* the thread moves to statement pc
FlGoto(t, pc) == fl_pc' = [fl_pc EXCEPT ![t] = pc]

\* publish: the test of self.enabled, then self.write_buffer.append(...); each
\* call carries a value of its own
FlAppend(t) ==
    /\ fl_pc[t] = "idle"
    /\ Len(fl_accepted) < MaxCalls
    /\ sq_enabled
    /\ LET row == [tag_name |-> ThreadTag(t),
                   value |-> StrOf(PyInt(Len(fl_accepted) + 1)),
                   data_type |-> "int", timestamp |-> clock]
       IN /\ write_buffer' = Append(write_buffer, row)
          /\ fl_accepted' = Append(fl_accepted, row)
    /\ FlGoto(t, "len")
    /\ UNCHANGED <<sq_rows, db_lock, notFlushVars>>

\* publish: if len(self.write_buffer) >= self.batch_size
FlLen(t) ==
    /\ fl_pc[t] = "len"
    /\ FlGoto(t, IF Len(write_buffer) >= BatchSize THEN "flush" ELSE "idle")
    /\ UNCHANGED <<write_buffer, sq_rows, db_lock, fl_accepted, notFlushVars>>

\* _flush_tag_history: if not self.write_buffer: return
FlTest(t) ==
    /\ fl_pc[t] = "flush"
    /\ FlGoto(t, IF write_buffer = << >> THEN "idle" ELSE "with")
    /\ UNCHANGED <<write_buffer, sq_rows, db_lock, fl_accepted, notFlushVars>>

\* _flush_tag_history: with self.db_lock
FlAcquire(t) ==
    /\ fl_pc[t] = "with"
    /\ db_lock = Free
    /\ db_lock' = t
    /\ FlGoto(t, "insert")
    /\ UNCHANGED <<write_buffer, sq_rows, fl_accepted, notFlushVars>>

\* _flush_tag_history: executemany over self.write_buffer and commit; with no
\* connection self.connection.cursor() raises and the with block ends
FlInsert(t) ==
    /\ fl_pc[t] = "insert"
    /\ IF sq_connected
       THEN /\ sq_rows' = sq_rows \o write_buffer
            /\ FlGoto(t, "clear")
            /\ UNCHANGED db_lock
       ELSE /\ db_lock' = Free
            /\ FlGoto(t, "idle")
            /\ UNCHANGED sq_rows
    /\ UNCHANGED <<write_buffer, fl_accepted, notFlushVars>>

\* _flush_tag_history: self.write_buffer.clear() and the end of the with block
FlClear(t) ==
    /\ fl_pc[t] = "clear"
    /\ write_buffer' = << >>
    /\ db_lock' = Free
    /\ FlGoto(t, "idle")
    /\ UNCHANGED <<sq_rows, fl_accepted, notFlushVars>>

\* how many entries of a sequence equal x
Occurrences(seq, x) == Cardinality({i \in DOMAIN seq : seq[i] = x})

(***************************************************************************)
(* C39 (as claimed): with publish running in one thread while a            *)
(* write-buffer flush runs in another, every record appended to the write  *)
(* buffer is inserted into the database exactly once or is still in the    *)
(* buffer afterwards: no record is dropped by the flush's clear and none   *)
(* is inserted twice.                                                      *)
(***************************************************************************)
C39_FlushKeepsEveryRecord ==
    (\A t \in Threads : fl_pc[t] = "idle") =>
        \A i \in DOMAIN fl_accepted :
            Occurrences(sq_rows, fl_accepted[i])
                + Occurrences(write_buffer, fl_accepted[i]) = 1

(***************************************************************************)
(* OPCUAClientPublisher: start, stop and the reconnect threads that start  *)
(* creates.  stop does not join the thread.                                *)
(***************************************************************************)
\* the most reconnect threads alive at once
MaxLoops == 2
LoopIds == 1..MaxLoops

\* self.servers_config, by server name
ServersConfig == <<"plc1", "plc2">>

NoLoop == [pc |-> "none", items |-> << >>]

InitReconnect ==
    /\ oc_running = FALSE
    /\ oc_clients = << >>
    /\ oc_threads = [l \in LoopIds |-> NoLoop]

notReconnVars == <<alarmVars, mgrVars, clock, faultVars, mbVars, cdVars, sqVars, gqVars,
                   lifeVars, ordVars, allocVars, raceVars, lockVars, retrigVars,
                   auditVars, flushVars>>

\* self.clients[server_name] = {...}: an existing key keeps its place, a new
\* key goes to the end
SetClient(clients, server_name, connected) ==
    IF \E i \in DOMAIN clients : clients[i].name = server_name
    THEN [i \in DOMAIN clients |->
             IF clients[i].name = server_name
             THEN [name |-> server_name, connected |-> connected]
             ELSE clients[i]]
    ELSE Append(clients, [name |-> server_name, connected |-> connected])

\* _connect_to_server: client.connect() returns or raises; both store an entry
ConnectToServer(clients, server_name, ok) == SetClient(clients, server_name, ok)

RECURSIVE ConnectAll(_, _, _)
\* start: for server_config in self.servers_config: self._connect_to_server(...)
ConnectAll(clients, servers, ok) ==
    IF servers = << >> THEN clients
    ELSE ConnectAll(ConnectToServer(clients, Head(servers), ok[Head(servers)]),
                    Tail(servers), ok)

\* the threads that have not returned from _reconnect_loop
LiveLoops == {l \in LoopIds : oc_threads[l].pc # "none"}

\* start(): self.enabled is true in this part
OcStart(ok) ==
    /\ LiveLoops # LoopIds
    /\ oc_running' = TRUE
    /\ oc_clients' = ConnectAll(oc_clients, ServersConfig, ok)
    /\ LET l == CHOOSE l \in LoopIds \ LiveLoops : \A k \in LoopIds \ LiveLoops : l <= k
       IN oc_threads' = [oc_threads EXCEPT ![l] = [pc |-> "while", items |-> << >>]]
    /\ UNCHANGED notReconnVars

\* stop(): self.running = False, the disconnects, self.clients.clear()
OcStop ==
    /\ oc_running' = FALSE
    /\ oc_clients' = << >>
    /\ UNCHANGED <<oc_threads, notReconnVars>>

\* _reconnect_loop: while self.running
LoopWhile(l) ==
    /\ oc_threads[l].pc = "while"
    /\ oc_threads' = [oc_threads EXCEPT ![l] =
                          IF oc_running THEN [pc |-> "sleep", items |-> << >>] ELSE NoLoop]
    /\ UNCHANGED <<oc_running, oc_clients, notReconnVars>>

\* _reconnect_loop: time.sleep(...) returns; list(self.clients.items())
LoopWake(l) ==
    /\ oc_threads[l].pc = "sleep"
    /\ oc_threads' = [oc_threads EXCEPT ![l] = [pc |-> "for", items |-> oc_clients]]
    /\ UNCHANGED <<oc_running, oc_clients, notReconnVars>>

\* _reconnect_loop: the list has ended, back to the test of the while
LoopEnd(l) ==
    /\ oc_threads[l].pc = "for"
    /\ oc_threads[l].items = << >>
    /\ oc_threads' = [oc_threads EXCEPT ![l] = [pc |-> "while", items |-> << >>]]
    /\ UNCHANGED <<oc_running, oc_clients, notReconnVars>>

\* _reconnect_loop: the next item is connected
LoopSkip(l) ==
    /\ oc_threads[l].pc = "for"
    /\ oc_threads[l].items # << >>
    /\ Head(oc_threads[l].items).connected
    /\ oc_threads' = [oc_threads EXCEPT ![l].items = Tail(oc_threads[l].items)]
    /\ UNCHANGED <<oc_running, oc_clients, notReconnVars>>

\* _reconnect_loop: the next item is not connected:
\* self._connect_to_server(client_info["config"])
LoopConnect(l, ok) ==
    /\ oc_threads[l].pc = "for"
    /\ oc_threads[l].items # << >>
    /\ ~Head(oc_threads[l].items).connected
    /\ oc_clients' = ConnectToServer(oc_clients, Head(oc_threads[l].items).name, ok)
    /\ oc_threads' = [oc_threads EXCEPT ![l].items = Tail(oc_threads[l].items)]
    /\ UNCHANGED <<oc_running, notReconnVars>>

(***************************************************************************)
(* C40 (as claimed): after OPCUAClientPublisher.stop() returns, the        *)
(* background reconnect loop makes no further connection attempt and the   *)
(* clients map stays empty until the next start(); after any sequence of   *)
(* stop()/start() calls at most one reconnect loop is running.             *)
(***************************************************************************)
C40_StopEndsReconnecting ==
    /\ [](~oc_running => oc_clients = << >>)
    /\ [](Cardinality(LiveLoops) <= 1)
    /\ [][\A l \in LoopIds, ok \in BOOLEAN : LoopConnect(l, ok) => oc_running]_vars

(***************************************************************************)
(* Specifications.                                                         *)
(***************************************************************************)
\* the variables of the parts a specification does not drive
IdleGate ==
    /\ InitSqlite({FALSE})
    /\ InitGraphql({FALSE})

IdleLate ==
    /\ InitRetrigger
    /\ enable_audit_log = FALSE
    /\ InitFlushThreads
    /\ InitReconnect

IdleExtra ==
    /\ IdleLife
    /\ InitOrder
    /\ InitAllocThreads
    /\ InitAlarmThreads({FALSE})
    /\ InitLock
    /\ IdleLate

InitSide ==
    /\ chan_down = {}
    /\ InitModbus({FALSE}, {StaticNone})
    /\ IdleCodec
    /\ IdleGate
    /\ IdleExtra

\* the alarm rule engine, driven directly

Init ==
    /\ InitAlarms(RuleConfigs)
    /\ InitManager(AllEnabled)
    /\ InitSide
    /\ clock = 1

Next ==
    \/ AlarmStart
    \/ AlarmStop
    \/ \E tag_name \in Tags, value \in Values, timestamp \in Timestamps :
          AlarmPublish(tag_name, value, timestamp)
    \/ \E pair \in AckPairs, user \in Users :
          AcknowledgeAlarm(pair[1], pair[2], user)
    \/ Tick

Spec == Init /\ [][Next]_vars

\* the dispatcher and its sinks
InitMgr ==
    /\ InitAlarms({RulesPlain})
    /\ \E enabled \in EnabledAtInit : InitManager(enabled)
    /\ InitSide
    /\ clock = 1

NextMgr ==
    \/ \E rest_ok \in BOOLEAN : StartAll(rest_ok)
    \/ StopAll
    \/ \E tag_name \in MgrTags, value \in MgrValues, timestamp \in Timestamps,
          opcua_raises \in BOOLEAN :
          PublishToAll(tag_name, value, timestamp, opcua_raises)
    \/ Tick

SpecMgr == InitMgr /\ [][NextMgr]_vars

\* the AlarmsPublisher fed values float() rejects, with any set of transports down
InitFaults ==
    /\ InitAlarms(RuleConfigs)
    /\ InitManager(AllEnabled)
    /\ chan_down \in SUBSET Transports
    /\ InitModbus({FALSE}, {StaticNone})
    /\ IdleCodec
    /\ IdleGate
    /\ IdleExtra
    /\ clock = 1

NextFaults ==
    \/ AlarmStart
    \/ AlarmStop
    \/ \E tag_name \in Tags, value \in FaultValues, timestamp \in FaultTimestamps :
          AlarmPublish(tag_name, value, timestamp)
    \/ Tick

SpecFaults == InitFaults /\ [][NextFaults]_vars

\* the ModbusTCPPublisher on its own, enabled, with any register_mapping
InitMb ==
    /\ InitAlarms({RulesPlain})
    /\ InitManager(AllEnabled)
    /\ chan_down = {}
    /\ InitModbus({TRUE}, StaticConfigs)
    /\ IdleCodec
    /\ IdleGate
    /\ IdleExtra
    /\ clock = 1

NextMb ==
    \/ \E tag_name \in MbTags, tag_type \in MbTypes : MbAllocate(tag_name, tag_type)
    \/ MbStart
    \/ MbStop
    \/ \E tag_name \in MbTags, value \in MbValues : MbPublish(tag_name, value)

SpecMb == InitMb /\ [][NextMb]_vars

\* value_to_registers applied to one input
InitCd ==
    /\ InitAlarms({RulesPlain})
    /\ InitManager(AllEnabled)
    /\ chan_down = {}
    /\ InitModbus({FALSE}, {StaticNone})
    /\ InitCodec
    /\ IdleGate
    /\ IdleExtra
    /\ clock = 1

NextCd == Encode

SpecCodec == InitCd /\ [][NextCd]_vars

\* five sinks called directly, each constructed with either enabled flag
InitGate ==
    /\ InitAlarmsEnabled(BOOLEAN, {RulesPlain})
    /\ \E enabled \in RestEnabledAtInit : InitManager(enabled)
    /\ chan_down = {}
    /\ InitModbus(BOOLEAN, {StaticNone})
    /\ IdleCodec
    /\ InitSqlite(BOOLEAN)
    /\ InitGraphql(BOOLEAN)
    /\ IdleExtra
    /\ clock = 1

NextGate ==
    \/ AlarmStart
    \/ AlarmStop
    \/ AlarmPublish(GateTag, GateValue, NoTs)
    \/ \E rest_ok \in BOOLEAN : RestStart(rest_ok)
    \/ RestStop
    \/ RestPublishCall(GateTag, GateValue, NoTs)
    \/ MbAllocate("X", "int")
    \/ MbStart
    \/ MbStop
    \/ MbPublish("X", GatePyValue)
    \/ \E outcome \in {"ok", "connect_raised", "schema_raised"} : SqStart(outcome)
    \/ SqStop
    \/ SqPublish(GateTag, GatePyValue, "int")
    \/ GqStart
    \/ GqStop
    \/ GqPublish(GateTag, GateValue, NoTs)

SpecGate == InitGate /\ [][NextGate]_vars

\* the dispatcher's start_all, stop_all and toggle_publisher over sinks whose
\* start() connects to a broker, a server or a database
InitLifeCycle ==
    /\ InitAlarms({RulesPlain})
    /\ InitManager(AllEnabled)
    /\ chan_down = {}
    /\ InitModbus({FALSE}, {StaticNone})
    /\ IdleCodec
    /\ IdleGate
    /\ InitLife(ConnectingSinks, SUBSET Optional)
    /\ InitOrder
    /\ InitAllocThreads
    /\ InitAlarmThreads({FALSE})
    /\ InitLock
    /\ IdleLate
    /\ clock = 1

NextLifeCycle ==
    \/ \E outcomes \in [LifeSet -> StartOutcomes] : LifeStartAll(outcomes)
    \/ LifeStopAll
    \/ \E publisher_name \in ToggleNames, outcome \in StartOutcomes :
          TogglePublisher(publisher_name, outcome)

SpecLifeCycle == InitLifeCycle /\ [][NextLifeCycle]_vars

\* the dispatcher's start_all, stop_all and toggle_publisher on a manager with
\* a REST sink, whose /api/publishers route serves the installed listing
InitListing ==
    /\ InitAlarms({RulesPlain})
    /\ InitManager(AllEnabled)
    /\ chan_down = {}
    /\ InitModbus({FALSE}, {StaticNone})
    /\ IdleCodec
    /\ IdleGate
    /\ InitLife(ListedSinks, {{}})
    /\ InitOrder
    /\ InitAllocThreads
    /\ InitAlarmThreads({FALSE})
    /\ InitLock
    /\ IdleLate
    /\ clock = 1

SpecListing == InitListing /\ [][NextLifeCycle]_vars

\* one caller of publish_to_all on a manager of a caching and a buffering sink
InitOrdered ==
    /\ InitAlarms({RulesPlain})
    /\ InitManager(AllEnabled)
    /\ chan_down = {}
    /\ InitModbus({FALSE}, {StaticNone})
    /\ IdleCodec
    /\ InitSqlite({TRUE})
    /\ InitGraphql({FALSE})
    /\ IdleLife
    /\ InitOrder
    /\ InitAllocThreads
    /\ InitAlarmThreads({FALSE})
    /\ InitLock
    /\ IdleLate
    /\ clock = 1

NextOrdered ==
    \/ \E tag_name \in MgrTags, value \in OrdValues : PublishToBoth(tag_name, value, NoTs)
    \/ \E outcome \in {"ok", "connect_raised", "schema_raised"} : SqStart(outcome)
    \/ SqStop

SpecOrdered == InitOrdered /\ [][NextOrdered]_vars

\* two threads in allocate_registers of a fresh sink, each for its own tag
InitAllocRace ==
    /\ InitAlarms({RulesPlain})
    /\ InitManager(AllEnabled)
    /\ chan_down = {}
    /\ InitModbus({TRUE}, {StaticNone})
    /\ IdleCodec
    /\ IdleGate
    /\ IdleLife
    /\ InitOrder
    /\ InitAllocThreads
    /\ InitAlarmThreads({FALSE})
    /\ InitLock
    /\ IdleLate
    /\ clock = 1

NextAllocRace ==
    \E t \in Threads :
        \/ \E tag_type \in MbTypes : AllocCall(t, tag_type)
        \/ AllocTest(t)
        \/ AllocRead(t)
        \/ AllocStore(t)
        \/ AllocLoad(t)
        \/ AllocAdd(t)

SpecAllocRace == InitAllocRace /\ [][NextAllocRace]_vars

\* two threads in AlarmsPublisher.publish for one pair, Inactive with two
\* condition-true updates or Active with two condition-false updates
InitAlarmRace ==
    /\ InitAlarms({RulesPlain})
    /\ InitManager(AllEnabled)
    /\ chan_down = {}
    /\ InitModbus({FALSE}, {StaticNone})
    /\ IdleCodec
    /\ IdleGate
    /\ IdleLife
    /\ InitOrder
    /\ InitAllocThreads
    /\ InitAlarmThreads(BOOLEAN)
    /\ InitLock
    /\ IdleLate
    /\ clock = 1

NextAlarmRace ==
    \E t \in Threads :
        \/ RacePublish(t)
        \/ RaceTest(t)
        \/ RaceUpdate(t)
        \/ RaceDebounce(t)
        \/ RaceCreate(t)
        \/ RaceAppend(t)
        \/ RaceNotify(t)
        \/ RaceStamp(t)
        \/ RaceGet(t)
        \/ RaceRecord(t)
        \/ RaceDel(t)
        \/ RaceCleared(t)

SpecAlarmRace == InitAlarmRace /\ [][NextAlarmRace]_vars

\* two threads in start() and cleanup_old_data() of one SQLite sink
InitCleanup ==
    /\ InitAlarms({RulesPlain})
    /\ InitManager(AllEnabled)
    /\ chan_down = {}
    /\ InitModbus({FALSE}, {StaticNone})
    /\ IdleCodec
    /\ InitSqlite({TRUE})
    /\ InitGraphql({FALSE})
    /\ IdleLife
    /\ InitOrder
    /\ InitAllocThreads
    /\ InitAlarmThreads({FALSE})
    /\ InitLock
    /\ InitRetrigger
    /\ enable_audit_log = TRUE
    /\ InitFlushThreads
    /\ InitReconnect
    /\ clock = 1

NextCleanup == \E t \in Threads : LockStep(t)

\* a thread that can run does run, and a thread that waits for the lock gets
\* it if the lock becomes free again and again
SpecCleanup ==
    /\ InitCleanup /\ [][NextCleanup]_vars
    /\ \A t \in Threads : WF_vars(LockStep(t)) /\ SF_vars(LockAcquire(t))

\* the alarm engine under updates with increasing timestamps
InitRetrig ==
    /\ InitAlarms(RuleConfigs)
    /\ InitManager(AllEnabled)
    /\ chan_down = {}
    /\ InitModbus({FALSE}, {StaticNone})
    /\ IdleCodec
    /\ IdleGate
    /\ IdleLife
    /\ InitOrder
    /\ InitAllocThreads
    /\ InitAlarmThreads({FALSE})
    /\ InitLock
    /\ IdleLate
    /\ clock = 1

NextRetrig ==
    \/ RtStart
    \/ \E tag_name \in Tags, value \in Values, timestamp \in 0..MaxTime :
          RtPublish(tag_name, value, timestamp)
    \/ \E i \in 1..2 : RtSettle(i)
    \/ RtArrive
    \/ \E tag_name \in Tags, value \in Values, timestamp \in 0..LastTime :
          RtOther(tag_name, value, timestamp)

SpecRetrig == InitRetrig /\ [][NextRetrig]_vars /\ WF_vars(RtArrive)

\* the SQLite sink with its audit log, called from one thread
InitAudited ==
    /\ InitAlarms({RulesPlain})
    /\ InitManager(AllEnabled)
    /\ chan_down = {}
    /\ InitModbus({FALSE}, {StaticNone})
    /\ IdleCodec
    /\ InitSqlite({TRUE})
    /\ InitGraphql({FALSE})
    /\ IdleLife
    /\ InitOrder
    /\ InitAllocThreads
    /\ InitAlarmThreads({FALSE})
    /\ InitLock
    /\ InitRetrigger
    /\ enable_audit_log = TRUE
    /\ InitFlushThreads
    /\ InitReconnect
    /\ clock = 1

NextAudited ==
    \/ \E outcome \in {"ok", "connect_raised", "schema_raised"} : SqStart(outcome)
    \/ SqStop
    \/ \E tag_name \in MgrTags, value \in OrdValues : SqPublish(tag_name, value, "int")

SpecAudited == InitAudited /\ [][NextAudited]_vars

\* two threads in publish of a started SQLite sink
InitFlushRace ==
    /\ InitAlarms({RulesPlain})
    /\ InitManager(AllEnabled)
    /\ chan_down = {}
    /\ InitModbus({FALSE}, {StaticNone})
    /\ IdleCodec
    /\ sq_enabled = TRUE
    /\ sq_connected = TRUE
    /\ write_buffer = << >>
    /\ sq_rows = << >>
    /\ InitGraphql({FALSE})
    /\ IdleLife
    /\ InitOrder
    /\ InitAllocThreads
    /\ InitAlarmThreads({FALSE})
    /\ InitLock
    /\ IdleLate
    /\ clock = 1

NextFlushRace ==
    \E t \in Threads :
        \/ FlAppend(t)
        \/ FlLen(t)
        \/ FlTest(t)
        \/ FlAcquire(t)
        \/ FlInsert(t)
        \/ FlClear(t)

SpecFlushRace == InitFlushRace /\ [][NextFlushRace]_vars

\* an enabled OPC UA client sink, started and stopped while its threads run
InitReconn ==
    /\ InitAlarms({RulesPlain})
    /\ InitManager(AllEnabled)
    /\ chan_down = {}
    /\ InitModbus({FALSE}, {StaticNone})
    /\ IdleCodec
    /\ IdleGate
    /\ IdleExtra
    /\ clock = 1

NextReconn ==
    \/ \E ok \in [{ServersConfig[i] : i \in DOMAIN ServersConfig} -> BOOLEAN] : OcStart(ok)
    \/ OcStop
    \/ \E l \in LoopIds :
          \/ LoopWhile(l)
          \/ LoopWake(l)
          \/ LoopEnd(l)
          \/ LoopSkip(l)
          \/ \E ok \in BOOLEAN : LoopConnect(l, ok)

SpecReconn == InitReconn /\ [][NextReconn]_vars

====
